---- MODULE Spec2Model ----
(***************************************************************************)
(* GIBench leaderboard: the data normalization and aggregation layer of    *)
(* assets/js/human_vs_model.js (key normalizer, option builder, metric     *)
(* extractor, aggregator, chart-data collector).                           *)
(*                                                                         *)
(* JavaScript values are tagged records [t, v]:                            *)
(*   "undef", "null", "nan", "num" (v an integer: a score in hundredths),  *)
(*   "bool", "str" (v a string),                                           *)
(*   "obj" (v a record: an object read through fixed field names),         *)
(*   "map" (v a sequence of <<key, value>> pairs in insertion order: an    *)
(*          object iterated with Object.keys/entries),                     *)
(*   "arr" (v a sequence: an array).                                       *)
(* A JavaScript string in a position that only ever holds a string (an     *)
(* object key, a normalized key) is the bare string. Field names and data  *)
(* written in Chinese in the source are spelled in pinyin here.            *)
(***************************************************************************)
EXTENDS Integers, Sequences, FiniteSets, TLC

VARIABLES
  pc,          \* which call has returned
  thrown,      \* whether a call raised instead of returning
  name,        \* normalizeDiseaseKey: the argument
  key,         \* normalizeDiseaseKey(name)
  key2,        \* normalizeDiseaseKey(key)
  entry,       \* extractMacroValue: the entry
  candidates,  \* extractMacroValue: the candidate field names, in order
  value,       \* extractMacroValue(entry, candidates)
  standards,   \* the standards document
  options,     \* the option list built from the standards document
  hvmData,     \* the results document
  lang,        \* the current language
  sortBy,      \* ranked table: the sort key
  rows,        \* ranked table: the rows shown
  selectedName, \* ranked table: the selected participant
  currentTab,  \* detail card: the task tab
  currentOptionKey, \* detail card: the key of the selected option
  chartItems,  \* detail card: the items of the chart drawn
  noOption,    \* detail card: the no-option placeholder is shown
  models,      \* model leaderboard: the model records
  optionsByTab, \* model leaderboard: the option list of each tab
  subject,     \* classifier: the name, physician flag and type label given
  physician,   \* classifier: isPhysician(name)
  category,    \* classifier: getParticipantCategory(name, isDoctor, type, standards)
  rawLikert,   \* adapter: the raw block of a Likert task
  likertStats, \* adapter: collectLikert(rawLikert, diseaseMap) and diseaseMap
  likertAggregates, \* the aggregates computeLikertScores derives from likertStats
  columnMax,   \* ranked table: getColumnMax(rows) of the last table drawn
  highlighted, \* ranked table: the columns marked is-max in each row drawn
  server,      \* page load: what the server answers to each request
  requested,   \* page load: the URLs requested, in order
  statusLog,   \* page load: the texts the load status has shown, in order
  pending,     \* page load: the results document awaiting the standards file
  installed,   \* page load: the standards document handed to setStandards
  viewInitialized, \* page load: initHumanVsModel was called and returned
  rawData,     \* adapter: the raw results document
  diagnosisMap, \* adapter: the per-disease Q3 scores it files
  currentLang, \* i18n: the current language
  listeners,   \* i18n: the registered listeners, in registration order
  calls,       \* i18n: the listener invocations of the last setLanguage
  langRequest  \* i18n: the argument of the last setLanguage

normVars == <<name, key, key2>>
extractVars == <<entry, candidates, value>>
optionVars == <<standards, options>>
tableVars == <<hvmData, lang, sortBy, rows, selectedName>>
detailVars == <<currentTab, currentOptionKey, chartItems, noOption>>
boardVars == <<models, optionsByTab>>
\* the variables of the components specified after the detail card
classifyVars == <<subject, physician, category>>
likertVars == <<rawLikert, likertStats, likertAggregates>>
renderVars == <<columnMax, highlighted>>
loadVars == <<server, requested, statusLog, pending, installed, viewInitialized>>
adaptVars == <<rawData, diagnosisMap>>
i18nVars == <<currentLang, listeners, calls, langRequest>>
lateVars == <<loadVars, adaptVars, i18nVars>>
restVars == <<boardVars, classifyVars, likertVars, renderVars, lateVars>>
vars == <<pc, thrown, normVars, extractVars, optionVars, tableVars, detailVars, restVars>>

-----------------------------------------------------------------------------
(* JavaScript values *)

\* F applied to the value of e, computed once
Eval(e, F(_)) == CHOOSE y \in {F(x) : x \in {e}} : TRUE

Undef == [t |-> "undef", v |-> 0]
Null == [t |-> "null", v |-> 0]
NaN == [t |-> "nan", v |-> 0]
Num(n) == [t |-> "num", v |-> n]
Bool(b) == [t |-> "bool", v |-> b]
Str(s) == [t |-> "str", v |-> s]
Obj(r) == [t |-> "obj", v |-> r]
Map(m) == [t |-> "map", v |-> m]
Arr(s) == [t |-> "arr", v |-> s]

\* the object {}, read through field names and iterated
EmptyObj == Obj([x \in {} |-> Undef])
EmptyMap == Map(<<>>)

\* Object.entries(m) of an iterated object: its <<key, value>> pairs in order
Entries(m) == Eval(m, LAMBDA x : IF x.t = "map" THEN x.v ELSE <<>>)

\* Object.keys(m) and Object.values(m)
Keys(m) == Eval(Entries(m), LAMBDA es : [i \in 1..Len(es) |-> es[i][1]])
Values(m) == Eval(Entries(m), LAMBDA es : [i \in 1..Len(es) |-> es[i][2]])

\* m[k] of an iterated object
Get(m, k) ==
  Eval(m, LAMBDA x :
    IF x.t = "map" /\ \E i \in 1..Len(x.v) : x.v[i][1] = k
      THEN x.v[CHOOSE i \in 1..Len(x.v) : x.v[i][1] = k][2]
      ELSE Undef)

\* o[k], o.k and o?.k: undefined when o has no such property
Field(o, k) ==
  Eval(o, LAMBDA x :
    IF x.t = "obj" /\ k \in DOMAIN x.v THEN x.v[k]
    ELSE IF x.t = "map" THEN Get(x, k)
    ELSE Undef)

\* x == null (null or undefined)
IsNullish(x) == x.t \in {"undef", "null"}

\* the truthiness test of ||, ! and if
Truthy(x) ==
  CASE x.t \in {"undef", "null", "nan"} -> FALSE
    [] x.t = "num" -> x.v # 0
    [] x.t = "bool" -> x.v
    [] x.t = "str" -> x.v # ""
    [] OTHER -> TRUE

\* a || b
Or(a, b) == Eval(a, LAMBDA x : IF Truthy(x) THEN x ELSE b)

\* a ?? b
Coalesce(a, b) == Eval(a, LAMBDA x : IF IsNullish(x) THEN b ELSE x)

-----------------------------------------------------------------------------
(* Strings *)

Digits == "0123456789"

\* \d of the regular expression
IsDigit(c) == \E i \in 1..Len(Digits) : SubSeq(Digits, i, i) = c

\* \s of the regular expression, and the characters trim() removes
IsSpace(c) == c = " "

UpperLetters ==
  <<"A", "B", "C", "D", "E", "F", "G", "H", "I", "J", "K", "L", "M",
    "N", "O", "P", "Q", "R", "S", "T", "U", "V", "W", "X", "Y", "Z">>

LowerLetters ==
  <<"a", "b", "c", "d", "e", "f", "g", "h", "i", "j", "k", "l", "m",
    "n", "o", "p", "q", "r", "s", "t", "u", "v", "w", "x", "y", "z">>

\* toLowerCase on one character
LowerChar(c) ==
  IF \E i \in 1..Len(UpperLetters) : UpperLetters[i] = c
    THEN LowerLetters[CHOOSE i \in 1..Len(UpperLetters) : UpperLetters[i] = c]
    ELSE c

UpperSet == {UpperLetters[i] : i \in 1..Len(UpperLetters)}

\* a string without upper-case letters is its own lower-case form
RECURSIVE toLowerCase(_)
toLowerCase(s) ==
  Eval(s, LAMBDA a :
    IF \A i \in 1..Len(a) : SubSeq(a, i, i) \notin UpperSet THEN a
    ELSE LowerChar(Head(a)) \o toLowerCase(Tail(a)))

RECURSIVE SkipSpaces(_)
SkipSpaces(s) ==
  Eval(s, LAMBDA a : IF a # "" /\ IsSpace(Head(a)) THEN SkipSpaces(Tail(a)) ELSE a)

RECURSIVE SkipDigits(_)
SkipDigits(s) ==
  Eval(s, LAMBDA a : IF a # "" /\ IsDigit(Head(a)) THEN SkipDigits(Tail(a)) ELSE a)

\* String.prototype.trim: from the first to the last character that is no space
trim(s) ==
  Eval(s, LAMBDA a :
    Eval({i \in 1..Len(a) : ~IsSpace(SubSeq(a, i, i))}, LAMBDA inner :
      IF inner = {} THEN ""
      ELSE SubSeq(a, CHOOSE i \in inner : \A j \in inner : i <= j,
                     CHOOSE i \in inner : \A j \in inner : i >= j)))

\* s.replace(/^\s*\d+\.\s*/, ""): the three character classes are disjoint,
\* so the greedy match is the only candidate match
StripOrdinal(s) ==
  Eval(s, LAMBDA whole :
    Eval(SkipSpaces(whole), LAMBDA a :
      Eval(SkipDigits(a), LAMBDA b :
        IF Len(b) < Len(a) /\ b # "" /\ Head(b) = "."
          THEN SkipSpaces(Tail(b))
          ELSE whole)))

\* s.endsWith(suffix)
endsWith(s, suffix) ==
  Eval(s, LAMBDA a :
    Len(a) >= Len(suffix) /\ SubSeq(a, Len(a) - Len(suffix) + 1, Len(a)) = suffix)

\* s.includes(part)
includes(s, part) ==
  Eval(s, LAMBDA a :
    \E i \in 1..(Len(a) - Len(part) + 1) : SubSeq(a, i, i + Len(part) - 1) = part)

\* Number.prototype.toString of an integer
RECURSIVE DecStr(_)
DecStr(n) ==
  IF n < 0 THEN "-" \o DecStr(-n)
  ELSE IF n < 10 THEN SubSeq(Digits, n + 1, n + 1)
  ELSE DecStr(n \div 10) \o SubSeq(Digits, (n % 10) + 1, (n % 10) + 1)

\* x.toString() for a value that has the method
toString(x) ==
  Eval(x, LAMBDA a :
    CASE a.t = "str" -> a.v
      [] a.t = "num" -> DecStr(a.v)
      [] a.t = "nan" -> "NaN"
      [] a.t = "bool" -> IF a.v THEN "true" ELSE "false"
      [] OTHER -> "[object Object]")

-----------------------------------------------------------------------------
(* Key normalizer *)

\* a mutation: the argument is used without the || "" guard
normalizeArg_noGuard(x) == x

\* (name || "")
normalizeArg(x) == Or(x, Str(""))

\* .toString() raises a TypeError on null and undefined
normalizeThrows(x) == IsNullish(normalizeArg(x))

normalizeDiseaseKey(x) ==
  toLowerCase(trim(StripOrdinal(toString(normalizeArg(x)))))

-----------------------------------------------------------------------------
(* Option builder *)

RECURSIVE Concat(_)
Concat(ss) ==
  Eval(ss, LAMBDA a : IF Len(a) = 0 THEN <<>> ELSE Head(a) \o Concat(Tail(a)))

\* list.filter(Boolean)
RECURSIVE FilterTruthy(_)
FilterTruthy(s) ==
  Eval(s, LAMBDA a :
    IF Len(a) = 0 THEN <<>>
    ELSE IF Truthy(Head(a)) THEN <<Head(a)>> \o FilterTruthy(Tail(a))
    ELSE FilterTruthy(Tail(a)))

\* the option pushed for the taxonomy entry cn: en of region regionEn
standardOption(regionEn, cn, en, nameMap) ==
  LET option(meta, disease_cn, disease_en) ==
        [key |-> normalizeDiseaseKey(Or(Str(cn), Or(en, Or(disease_en, disease_cn)))),
         disease_cn |-> disease_cn,
         disease_en |-> disease_en,
         location_cn |-> Or(Field(meta, "location_cn"), Str(regionEn)),
         location_en |-> Or(Field(meta, "location_en"), Str(regionEn)),
         aliases |-> FilterTruthy(<<Str(cn), en, disease_cn, disease_en>>)]
  IN Eval(Or(Get(nameMap, cn), EmptyObj), LAMBDA meta :
       option(meta, Or(Field(meta, "name_cn"), Str(cn)), Or(Field(meta, "name_en"), en)))

\* the taxonomy entries <<regionEn, cn, en>> in iteration order
TaxonomyEntries(std) ==
  LET entriesOf(regionEn, diseases) ==
        [d \in 1..Len(diseases) |-> <<regionEn, diseases[d][1], diseases[d][2]>>]
  IN Eval(Entries(Field(std, "disease_categories")), LAMBDA regions :
       Concat([r \in 1..Len(regions) |->
                 Eval(Entries(Or(regions[r][2], EmptyMap)), LAMBDA diseases :
                   entriesOf(regions[r][1], diseases))]))

buildDiseaseOptionsFromStandards(std) ==
  IF ~Truthy(Field(std, "disease_categories")) THEN <<>>
  ELSE Eval(<<Or(Field(std, "disease_name_map"), EmptyMap), TaxonomyEntries(std)>>, LAMBDA a :
         [i \in 1..Len(a[2]) |-> standardOption(a[2][i][1], a[2][i][2], a[2][i][3], a[1])])

\* the normalized, non-empty forms of the option's key, names and aliases
buildOptionKeySet(option) ==
  Eval(<<Str(option.key), option.disease_cn, option.disease_en>> \o option.aliases, LAMBDA ks :
    {normalizeDiseaseKey(ks[i]) : i \in 1..Len(ks)} \ {""})

-----------------------------------------------------------------------------
(* Metric extractor *)

\* typeof value === "number" && !Number.isNaN(value) ? value : null
safeNumber(x) == Eval(x, LAMBDA a : IF a.t = "num" THEN a ELSE Null)

\* entry.overall ?? entry["zongti"] ?? entry["zongti_mojibake"] ?? entry.total
\* ?? entry.mean, where "zongti" stands for the Chinese field name and
\* "zongti_mojibake" for its garbled encoding
GenericValue(e) ==
  Coalesce(Field(e, "overall"),
    Coalesce(Field(e, "zongti"),
      Coalesce(Field(e, "zongti_mojibake"),
        Coalesce(Field(e, "total"), Field(e, "mean")))))

\* the indexes of the candidates whose field of e holds a number
NumericCandidates(e, cands) ==
  {i \in 1..Len(cands) : safeNumber(Field(e, cands[i])) # Null}

Min(S) == CHOOSE x \in S : \A y \in S : x <= y

\* a mutation: only the first candidate of the list is tried
extractMacroValue_firstOnly(e, cands) ==
  Eval(e, LAMBDA x :
    IF IsNullish(x) THEN Null
    ELSE IF safeNumber(x) # Null THEN safeNumber(x)
    ELSE IF x.t \notin {"obj", "map"} THEN Null
    ELSE IF cands # <<>> /\ safeNumber(Field(x, cands[1])) # Null
      THEN safeNumber(Field(x, cands[1]))
      ELSE safeNumber(GenericValue(x)))

extractMacroValue(e, cands) ==
  Eval(e, LAMBDA x :
    IF IsNullish(x) THEN Null
    ELSE IF safeNumber(x) # Null THEN safeNumber(x)
    ELSE IF x.t \notin {"obj", "map"} THEN Null
    ELSE Eval(NumericCandidates(x, cands), LAMBDA numeric :
           IF numeric # {}
             THEN safeNumber(Field(x, cands[Min(numeric)]))
             ELSE safeNumber(GenericValue(x))))

-----------------------------------------------------------------------------
(* Participant classifier *)

\* a mutation: the keys and the values of both tables are recognised
isPhysician_bothDirections(std, n) ==
  \E table \in {"physician_names_en", "physician_en_to_cn"} :
    Eval(Entries(Field(std, table)), LAMBDA es :
      \E i \in 1..Len(es) : es[i][1] = n \/ es[i][2] = Str(n))

\* buildPhysicianChecker(standards)(name)
isPhysician(std, n) ==
  \/ Eval(Values(Field(std, "physician_names_en")), LAMBDA ids :
       \E i \in 1..Len(ids) : ids[i] = Str(n))
  \/ Eval(Keys(Field(std, "physician_en_to_cn")), LAMBDA ids :
       \E i \in 1..Len(ids) : ids[i] = n)

isGroupAverageName(n) == endsWith(n, "(Avg)")

\* a mutation: the key of the category is returned as it is
replaceUnderscores_none(s) == s

\* cat.replace(/_/g, "-")
RECURSIVE replaceUnderscores(_)
replaceUnderscores(s) ==
  Eval(s, LAMBDA a :
    IF a = "" THEN ""
    ELSE (IF SubSeq(a, 1, 1) = "_" THEN "-" ELSE SubSeq(a, 1, 1))
           \o replaceUnderscores(SubSeq(a, 2, Len(a))))

\* the type labels of a junior endoscopist, and the parts that mark one
JuniorLabels == {"chuji neikuijing yishi", "Junior Endoscopists", "gaonianzi"}
JuniorParts == {"chuji", "Junior"}

\* Object.entries(x) of an iterated object or of an array
ObjectEntries(x) ==
  Eval(x, LAMBDA a :
    IF a.t = "arr" THEN [i \in 1..Len(a.v) |-> <<DecStr(i - 1), a.v[i]>>]
    ELSE Entries(a))

\* Array.isArray(list) && list.includes(n)
listsName(list, n) ==
  list.t = "arr" /\ \E i \in 1..Len(list.v) : list.v[i] = Str(n)

\* a mutation: the category of the last list that holds the name
firstListing_last(lists) == CHOOSE i \in lists : \A j \in lists : j <= i

\* the first of the entries whose list holds the name
firstListing(lists) == CHOOSE i \in lists : \A j \in lists : i <= j

\* getParticipantCategory(name, isDoctor, type, standards)
getParticipantCategory(n, isDoctor, type, std) ==
  IF isDoctor
    THEN Eval(trim(toString(Or(type, Str("")))), LAMBDA typeStr :
           IF typeStr \in JuniorLabels \/ \E part \in JuniorParts : includes(typeStr, part)
             THEN "junior-endoscopist"
             ELSE "residency-trainee")
    ELSE Eval(ObjectEntries(Or(Field(std, "model_categories"), EmptyMap)), LAMBDA es :
           Eval({i \in 1..Len(es) : listsName(es[i][2], n)}, LAMBDA lists :
             IF lists # {}
               THEN replaceUnderscores(es[firstListing(lists)][1])
               ELSE "opensource"))

-----------------------------------------------------------------------------
(* Aggregator *)

RECURSIVE Sum(_)
Sum(s) == Eval(s, LAMBDA a : IF Len(a) = 0 THEN 0 ELSE Head(a) + Sum(Tail(a)))

\* the mean of a list of numbers, null for the empty list. Numbers are whole
\* hundredths, and the documents enumerated keep every mean a whole number
mean(arr) ==
  Eval(arr, LAMBDA a : IF Len(a) = 0 THEN Null ELSE Num(Sum(a) \div Len(a)))

\* the elements of s at the indexes kept, in order (Array.prototype.filter)
SelectIndexes(s, keep) ==
  Eval(<<s, keep>>, LAMBDA a :
    [k \in 1..Cardinality(a[2]) |->
       a[1][CHOOSE i \in a[2] : Cardinality({j \in a[2] : j <= i}) = k]])

\* the list without the later occurrences of an element (the insertion order
\* of a Set and of a Map's keys)
Distinct(s) ==
  Eval(s, LAMBDA a :
    SelectIndexes(a, {i \in 1..Len(a) : \A j \in 1..(i - 1) : a[j] # a[i]}))

normalizeLikertType(typeKey) ==
  Eval(toLowerCase(typeKey), LAMBDA k :
    IF includes(k, "kantushuohua_mojibake") \/ includes(k, "kantushuohua")
         \/ includes(k, "findings") \/ includes(k, "q4")
      THEN "q4"
    ELSE IF includes(k, "houxujianyi_mojibake") \/ includes(k, "houxujianyi")
         \/ includes(k, "recommend") \/ includes(k, "q5")
      THEN "q5"
    ELSE "none")

\* the <<name, mean, std>> records pushed for task q, in iteration order
LikertRecords(likertBlock, q) ==
  LET records(stats) ==
        [i \in 1..Len(stats) |->
           <<stats[i][1],
             safeNumber(Field(Field(stats[i][2], "total_score"), "mean")),
             safeNumber(Field(Field(stats[i][2], "total_score"), "std"))>>]
      ofBlock(typeKey, info) ==
        IF normalizeLikertType(typeKey) # q THEN <<>>
        ELSE Eval(records(Entries(Or(Field(info, "basic_statistics"), EmptyMap))), LAMBDA rs :
               SelectIndexes(rs, {i \in 1..Len(rs) : rs[i][2] # Null}))
  IN Eval(Entries(likertBlock), LAMBDA blocks :
       Concat([b \in 1..Len(blocks) |-> ofBlock(blocks[b][1], blocks[b][2])]))

\* computeLikertScores(likertBlock).q4Aggregates (q = "q4") or .q5Aggregates
computeLikertScores(likertBlock, q) ==
  LET meansOf(recs, n) == SelectIndexes([i \in 1..Len(recs) |-> recs[i][2].v],
                                        {i \in 1..Len(recs) : recs[i][1] = n})
      stdsOf(recs, n) == SelectIndexes([i \in 1..Len(recs) |-> recs[i][3].v],
                                       {i \in 1..Len(recs) : recs[i][1] = n /\ recs[i][3] # Null})
      aggregateScores(recs, names) ==
        Map([i \in 1..Len(names) |->
              <<names[i], Obj([mean |-> mean(meansOf(recs, names[i])),
                               std |-> Coalesce(mean(stdsOf(recs, names[i])), Null)])>>])
  IN Eval(LikertRecords(likertBlock, q), LAMBDA recs :
       Eval(Distinct([i \in 1..Len(recs) |-> recs[i][1]]), LAMBDA names :
         aggregateScores(recs, names)))

Q1Candidates ==
  <<"jiepoudingwei_mojibake", "jiepoudingwei", "anatomical_localization", "anatomical", "q1">>

Q3Candidates == <<"zhenduan_mojibake", "zhenduan", "diagnosis", "q3">>

\* the row of one participant
participantRow(n, macro, participantsQ2, q4Aggregates, q5Aggregates, std) ==
  Eval(<<Get(macro, n), Get(participantsQ2, n)>>, LAMBDA a :
    [name |-> n,
     isDoctor |-> isPhysician(std, n),
     type |-> Or(Field(a[2], "type"), Null),
     q1 |-> extractMacroValue(a[1], Q1Candidates),
     q2 |-> safeNumber(Field(Field(Field(a[2], "metrics"), "overall"), "mean_iou")),
     q3 |-> extractMacroValue(a[1], Q3Candidates),
     q4 |-> safeNumber(Field(Get(q4Aggregates, n), "mean")),
     q5 |-> safeNumber(Field(Get(q5Aggregates, n), "mean"))])

\* a mutation: every row is kept
visibleInRanking_all(row) == TRUE

\* the page rule of the overall ranking: of the physicians only the group
\* average is shown
visibleInRanking(row) == ~row.isDoctor \/ isGroupAverageName(row.name)

\* a[key] ?? -1, in hundredths
NullRank == -100

\* a mutation: a missing score ranks as 1
sortRank_nullAsOne(x) == Eval(x, LAMBDA a : IF IsNullish(a) THEN 100 ELSE a.v)

sortRank(x) == Eval(x, LAMBDA a : IF IsNullish(a) THEN NullRank ELSE a.v)

\* a mutation: a row goes before the rows of equal rank
insertPosition_beforeTies(ranks, r) == Cardinality({i \in 1..Len(ranks) : ranks[i] > r})

\* where a stable descending sort puts an element of rank r among the
\* elements before it, already sorted with the ranks given
insertPosition(ranks, r) == Cardinality({i \in 1..Len(ranks) : ranks[i] >= r})

\* Array.prototype.sort with the comparator (a, b) => rank(b) - rank(a): stable
RECURSIVE sortDescending(_, _)
sortDescending(items, ranks) ==
  LET insert(front, r, item) ==
        Eval(insertPosition([i \in 1..Len(front) |-> front[i][1]], r), LAMBDA at :
          SubSeq(front, 1, at) \o << <<r, item>> >> \o SubSeq(front, at + 1, Len(front)))
      step(is, rs, n) ==
        IF n = 0 THEN <<>>
        ELSE Eval(sortDescending(SubSeq(is, 1, n - 1), SubSeq(rs, 1, n - 1)), LAMBDA front :
               insert(front, rs[n], is[n]))
  IN Eval(<<items, ranks>>, LAMBDA a : step(a[1], a[2], Len(a[1])))

\* the sorted items alone
sorted(items, ranks) ==
  Eval(sortDescending(items, ranks), LAMBDA ranked :
    [i \in 1..Len(ranked) |-> ranked[i][2]])

SortKeys == {"q1", "q2", "q3", "q4", "q5"}

\* the rows computeParticipantRows maps the names to, one for each name of
\* allNames in insertion order
mappedRows(doc, std) ==
  LET allNames(macro, participantsQ2, q4Aggregates, q5Aggregates) ==
        Distinct(Keys(macro) \o Keys(participantsQ2)
                   \o Keys(q4Aggregates) \o Keys(q5Aggregates))
      all(macro, participantsQ2, q4Aggregates, q5Aggregates) ==
        Eval(allNames(macro, participantsQ2, q4Aggregates, q5Aggregates), LAMBDA names :
          [i \in 1..Len(names) |->
             participantRow(names[i], macro, participantsQ2, q4Aggregates, q5Aggregates, std)])
      blocks(mcBlock, spatialBlock, likertBlock) ==
        <<Or(Field(mcBlock, "macro_avg_f1"), EmptyMap),
          Or(Field(spatialBlock, "participants"), EmptyMap),
          computeLikertScores(likertBlock, "q4"),
          computeLikertScores(likertBlock, "q5")>>
  IN Eval(<<Or(Field(doc, "q1_q3_multiple_choice"), EmptyObj),
            Or(Field(doc, "q2_spatial_localization"), EmptyObj),
            Or(Field(doc, "q4_q5_likert"), EmptyMap)>>, LAMBDA d :
       Eval(blocks(d[1], d[2], d[3]), LAMBDA b : all(b[1], b[2], b[3], b[4])))

\* the rows of computeParticipantRows before they are sorted
unsortedRows(doc, std) ==
  Eval(mappedRows(doc, std), LAMBDA rs :
    SelectIndexes(rs, {i \in 1..Len(rs) : visibleInRanking(rs[i])}))

computeParticipantRows(doc, std, by) ==
  LET k == IF by \in SortKeys THEN by ELSE "q1"
  IN Eval(unsortedRows(doc, std), LAMBDA shown :
       sorted(shown, [i \in 1..Len(shown) |-> sortRank(shown[i][k])]))

-----------------------------------------------------------------------------
(* Option builder: the options derived from the results document *)

\* the characters in the order of the collation, case aside
CollationOrder == " _-,;:!?.'()[]{}@*/&#%0123456789abcdefghijklmnopqrstuvwxyz"

\* the primary weight of a character: its place in the collation order
PrimaryWeight(c) ==
  Eval(LowerChar(c), LAMBDA l :
    IF \E i \in 1..Len(CollationOrder) : SubSeq(CollationOrder, i, i) = l
      THEN CHOOSE i \in 1..Len(CollationOrder) : SubSeq(CollationOrder, i, i) = l
      ELSE Len(CollationOrder) + 1)

\* a.localeCompare(b, "zh-CN") < 0 on the characters above: by primary weight,
\* a proper prefix first, then lower case before upper case at the first
\* difference
RECURSIVE PrimaryCompare(_, _)
PrimaryCompare(a, b) ==
  LET byWeight(x, y, wx, wy) ==
        IF wx < wy THEN -1
        ELSE IF wx > wy THEN 1
        ELSE PrimaryCompare(Tail(x), Tail(y))
  IN Eval(<<a, b>>, LAMBDA p :
       IF p[1] = "" /\ p[2] = "" THEN 0
       ELSE IF p[1] = "" THEN -1
       ELSE IF p[2] = "" THEN 1
       ELSE Eval(<<PrimaryWeight(Head(p[1])), PrimaryWeight(Head(p[2]))>>, LAMBDA w :
              byWeight(p[1], p[2], w[1], w[2])))

RECURSIVE CaseCompare(_, _)
CaseCompare(a, b) ==
  Eval(<<a, b>>, LAMBDA p :
    IF p[1] = "" \/ p[2] = "" THEN 0
    ELSE IF Head(p[1]) = Head(p[2]) THEN CaseCompare(Tail(p[1]), Tail(p[2]))
    ELSE IF LowerChar(Head(p[1])) = Head(p[1]) THEN -1
    ELSE 1)

localeCompare(a, b) ==
  Eval(PrimaryCompare(a, b), LAMBDA primary :
    IF primary # 0 THEN primary ELSE CaseCompare(a, b))

\* the raw names handed to add(), in order
DataDiseaseNames(doc) ==
  LET stripped(diseases) == [d \in 1..Len(diseases) |-> StripOrdinal(diseases[d])]
      diseasesOf(participant) ==
        Keys(Or(Field(Field(participant, "metrics"), "by_disease"), EmptyMap))
      spatialNames(participants) ==
        Concat([i \in 1..Len(participants) |->
                  Eval(diseasesOf(participants[i]), LAMBDA diseases : stripped(diseases))])
  IN Eval(Field(doc, "q1_q3_multiple_choice"), LAMBDA block :
       Keys(Or(Field(block, "anatomical_location_disease_f1"), EmptyMap))
         \o Keys(Or(Field(block, "diagnosis_disease_f1"), EmptyMap))
         \o Eval(Values(Or(Field(Field(doc, "q2_spatial_localization"), "participants"),
                           EmptyMap)),
                 LAMBDA participants : spatialNames(participants)))

buildOptionsFromData(doc) ==
  LET option(raw, k) ==
        [key |-> k,
         disease_cn |-> Str(raw),
         disease_en |-> Str(raw),
         location_cn |-> Undef,
         location_en |-> Undef,
         aliases |-> <<>>]
      found(raws, keys) ==
        SelectIndexes([i \in 1..Len(raws) |-> option(raws[i], keys[i])],
                      {i \in 1..Len(raws) :
                         keys[i] # "" /\ \A j \in 1..(i - 1) : keys[j] # keys[i]})
      label(o) == Or(o.disease_cn, Or(o.disease_en, Or(Str(o.key), Str("")))).v
      before(labels, i) ==
        Cardinality({j \in 1..Len(labels) : localeCompare(labels[j], labels[i]) < 0})
      byLabel(os) ==
        Eval([i \in 1..Len(os) |-> label(os[i])], LAMBDA labels :
          sorted(os, [i \in 1..Len(os) |-> 0 - before(labels, i)]))
  IN Eval(DataDiseaseNames(doc), LAMBDA raws :
       Eval([i \in 1..Len(raws) |-> normalizeDiseaseKey(Str(raws[i]))], LAMBDA keys :
         Eval(found(raws, keys), LAMBDA os : byLabel(os))))

-----------------------------------------------------------------------------
(* Chart-data collector *)

\* a mutation: the last score table whose disease name is in the key set
findScoresByDisease_lastMatch(mapping, option) ==
  Eval(<<Entries(Or(mapping, EmptyMap)), buildOptionKeySet(option)>>, LAMBDA a :
    Eval({i \in 1..Len(a[1]) : normalizeDiseaseKey(Str(a[1][i][1])) \in a[2]}, LAMBDA found :
      IF found = {} THEN Null
      ELSE a[1][CHOOSE i \in found : \A j \in found : j <= i][2]))

\* the first score table of the mapping whose disease name, normalized, is in the
\* option's key set; null when there is none
findScoresByDisease(mapping, option) ==
  LET hits(es, keySet) ==
        {i \in 1..Len(es) : normalizeDiseaseKey(Str(es[i][1])) \in keySet}
  IN Eval(<<Entries(Or(mapping, EmptyMap)), buildOptionKeySet(option)>>, LAMBDA a :
       Eval(hits(a[1], a[2]), LAMBDA found :
         IF found = {} THEN Null ELSE a[1][Min(found)][2]))

chartItem(n, v, sd, doctor, tp, size) ==
  [name |-> n, value |-> v, std |-> sd, isDoctor |-> doctor, type |-> tp, sampleSize |-> size]

\* the item pushed for an entry of a score table of participants, null for
\* none; the score is read from the field given or is the entry itself
tableItem(n, cell, field, participantsQ2, std) ==
  LET size == IF field = "mean" THEN Coalesce(Field(cell, "sample_size"), Num(3)) ELSE Num(3)
  IN Eval(<<safeNumber(Coalesce(Field(cell, field), cell)), isPhysician(std, n)>>, LAMBDA a :
       IF a[1] = Null THEN Null
       ELSE chartItem(n, a[1], safeNumber(Field(cell, "std")), a[2],
                      Or(Field(Get(participantsQ2, n), "type"), Null),
                      IF a[2] THEN size ELSE Null))

tableItems(scores, field, doc, std) ==
  LET found(es, participantsQ2) ==
        [i \in 1..Len(es) |-> tableItem(es[i][1], es[i][2], field, participantsQ2, std)]
  IN Eval(<<Entries(scores),
            Or(Field(Field(doc, "q2_spatial_localization"), "participants"), EmptyMap)>>,
          LAMBDA a :
            Eval(found(a[1], a[2]), LAMBDA items :
              SelectIndexes(items, {i \in 1..Len(items) : items[i] # Null})))

\* the item pushed for a participant of the region task, null for none: the
\* first of its diseases whose name is in the key set decides
spatialItem(n, info, targetKeys, std) ==
  LET hits(diseases) ==
        {d \in 1..Len(diseases) : normalizeDiseaseKey(Str(diseases[d][1])) \in targetKeys}
      v(metrics) == safeNumber(Coalesce(Field(metrics, "mean_iou"),
                               Coalesce(Field(Field(metrics, "overall"), "mean_iou"),
                                        Field(metrics, "meanIoU"))))
      sd(metrics) == safeNumber(Coalesce(Field(metrics, "std_error"),
                                Coalesce(Field(metrics, "overall_avg_iou_std_error"),
                                Coalesce(Field(metrics, "mean_iou_std_error"),
                                Coalesce(Field(metrics, "miou_std_error"),
                                         Field(metrics, "std"))))))
      item(metrics, score, doctor) ==
        IF score = Null THEN Null
        ELSE chartItem(n, score, sd(metrics), doctor, Or(Field(info, "type"), Null),
                       IF doctor THEN Coalesce(Field(metrics, "total"), Num(3)) ELSE Null)
      ofFirst(metrics) == Eval(<<v(metrics), isPhysician(std, n)>>, LAMBDA a :
                            item(metrics, a[1], a[2]))
  IN Eval(Entries(Or(Field(Field(info, "metrics"), "by_disease"), EmptyMap)), LAMBDA diseases :
       Eval(hits(diseases), LAMBDA found :
         IF found = {} THEN Null
         ELSE Eval(diseases[Min(found)][2], LAMBDA metrics : ofFirst(metrics))))

spatialItems(doc, option, std) ==
  LET found(ps, targetKeys) ==
        [i \in 1..Len(ps) |-> spatialItem(ps[i][1], ps[i][2], targetKeys, std)]
  IN Eval(<<Entries(Or(Field(Field(doc, "q2_spatial_localization"), "participants"),
                       EmptyMap)),
            buildOptionKeySet(option)>>,
          LAMBDA a :
            Eval(found(a[1], a[2]), LAMBDA items :
              SelectIndexes(items, {i \in 1..Len(items) : items[i] # Null})))

\* a mutation: without a score table nothing is pushed
aggregateItems_none(doc, subtab, std) == <<>>

\* the items pushed from the overall aggregates of a Likert task
aggregateItems(doc, subtab, std) ==
  LET item(n, aggregate, participantsQ2) ==
        chartItem(n, safeNumber(Field(aggregate, "mean")), safeNumber(Field(aggregate, "std")),
                  isPhysician(std, n), Or(Field(Get(participantsQ2, n), "type"), Null), Null)
      found(aggregates, participantsQ2) ==
        [i \in 1..Len(aggregates) |-> item(aggregates[i][1], aggregates[i][2], participantsQ2)]
  IN Eval(<<Entries(computeLikertScores(Or(Field(doc, "q4_q5_likert"), EmptyMap), subtab)),
            Or(Field(Field(doc, "q2_spatial_localization"), "participants"), EmptyMap)>>,
          LAMBDA a :
            Eval(found(a[1], a[2]), LAMBDA items :
              SelectIndexes(items, {i \in 1..Len(items) : items[i].value # Null})))

\* the mapping of disease names to score tables of a tab
diseaseMapping(doc, subtab) ==
  CASE subtab = "q1" ->
         Field(Or(Field(doc, "q1_q3_multiple_choice"), EmptyObj), "anatomical_location_disease_f1")
    [] subtab = "q3" ->
         Field(Or(Field(doc, "q1_q3_multiple_choice"), EmptyObj), "diagnosis_disease_f1")
    [] subtab = "q4" -> Field(Field(doc, "q4_q5_likert"), "q4_per_disease")
    [] subtab = "q5" -> Field(Field(doc, "q4_q5_likert"), "q5_per_disease")
    [] OTHER -> Undef

\* the items before the filter and the sort
pushedItems(doc, subtab, option, std) ==
  Eval(findScoresByDisease(diseaseMapping(doc, subtab), option), LAMBDA scores :
    CASE subtab \in {"q1", "q3"} ->
           IF Truthy(scores) THEN tableItems(scores, "value", doc, std) ELSE <<>>
      [] subtab = "q2" -> spatialItems(doc, option, std)
      [] subtab \in {"q4", "q5"} ->
           IF Truthy(scores) THEN tableItems(scores, "mean", doc, std)
           ELSE aggregateItems(doc, subtab, std)
      [] OTHER -> <<>>)

\* a mutation: every item is kept
visibleInChart_all(item) == TRUE

\* the page rule of the breakdowns: the group average is hidden
visibleInChart(item) == ~isGroupAverageName(item.name)

\* collectHumanChartItems for an option that is not null
collectHumanChartItems(doc, subtab, option, std) ==
  LET filtered(items) == SelectIndexes(items, {i \in 1..Len(items) : visibleInChart(items[i])})
  IN Eval(pushedItems(doc, subtab, option, std), LAMBDA items :
       Eval(filtered(items), LAMBDA shown :
         sorted(shown, [i \in 1..Len(shown) |-> sortRank(shown[i].value)])))

-----------------------------------------------------------------------------
(* Specification of the key normalizer: any argument, normalized, and the  *)
(* result normalized again.                                                *)

MaxLen == 4

Chars == {" ", "1", ".", "a", "A"}

RECURSIVE StringsOfLen(_)
StringsOfLen(n) ==
  IF n = 0 THEN {""} ELSE {s \o c : s \in StringsOfLen(n - 1), c \in Chars}

Strings == UNION {StringsOfLen(n) : n \in 0..MaxLen}

NonStrings ==
  {Undef, Null, NaN, Num(0), Num(1), Num(12), Bool(TRUE), Bool(FALSE), EmptyObj}

ExtractIdle ==
  /\ entry = Undef
  /\ candidates = <<>>
  /\ value = Undef

OptionIdle ==
  /\ standards = Undef
  /\ options = <<>>

TableIdle ==
  /\ hvmData = Undef
  /\ lang = "zh"
  /\ sortBy = "q1"
  /\ rows = <<>>
  /\ selectedName = Null

DetailIdle ==
  /\ currentTab = "q1"
  /\ currentOptionKey = Null
  /\ chartItems = <<>>
  /\ noOption = FALSE

NormIdle ==
  /\ name = Undef
  /\ key = ""
  /\ key2 = ""

BoardIdle ==
  /\ models = Undef
  /\ optionsByTab = <<>>

ClassifyIdle ==
  /\ subject = Undef
  /\ physician = Undef
  /\ category = Undef

LikertIdle ==
  /\ rawLikert = Undef
  /\ likertStats = Undef
  /\ likertAggregates = Undef

RenderIdle ==
  /\ columnMax = Undef
  /\ highlighted = <<>>

\* the components specified after the model leaderboard
LoadIdle ==
  /\ server = Undef
  /\ requested = <<>>
  /\ statusLog = <<>>
  /\ pending = Undef
  /\ installed = Undef
  /\ viewInitialized = FALSE

AdaptIdle == rawData = Undef /\ diagnosisMap = Undef

I18nIdle == currentLang = "zh" /\ listeners = <<>> /\ calls = <<>> /\ langRequest = Undef

LateIdle == LoadIdle /\ AdaptIdle /\ I18nIdle

LaterIdle == ClassifyIdle /\ LikertIdle /\ RenderIdle /\ LateIdle

RestIdle == BoardIdle /\ LaterIdle

NormInit ==
  /\ RestIdle
  /\ pc = "start"
  /\ thrown = FALSE
  /\ name \in {Str(s) : s \in Strings} \cup NonStrings
  /\ key = ""
  /\ key2 = ""
  /\ ExtractIdle
  /\ OptionIdle
  /\ TableIdle
  /\ DetailIdle

Normalize ==
  /\ pc = "start"
  /\ thrown' = normalizeThrows(name)
  /\ key' = IF thrown' THEN key ELSE normalizeDiseaseKey(name)
  /\ pc' = "normalized"
  /\ UNCHANGED <<restVars, detailVars, name, key2, extractVars, optionVars, tableVars>>

NormalizeAgain ==
  /\ pc = "normalized"
  /\ ~thrown
  /\ key2' = normalizeDiseaseKey(Str(key))
  /\ pc' = "renormalized"
  /\ UNCHANGED <<restVars, detailVars, thrown, name, key, extractVars, optionVars, tableVars>>

NormNext == Normalize \/ NormalizeAgain

SpecNorm == NormInit /\ [][NormNext]_vars

\* C1: the key normalizer is idempotent on every string:
\* normalizeDiseaseKey(normalizeDiseaseKey(x)) = normalizeDiseaseKey(x)
C1_Idempotent ==
  (pc = "renormalized" /\ name.t = "str") => key2 = key

-----------------------------------------------------------------------------
(* Specification of the metric extractor: any entry and any list of        *)
(* candidate fields.                                                       *)

NA == Str("N/A")

\* candidate fields of the two calls of computeParticipantRows that the
\* entries below may carry
CandidateFields == {"anatomical", "q1", "diagnosis"}

GenericFields == {"overall", "total", "mean"}

\* what a field of an entry may hold
FieldValues == {Num(80), Num(65), NA}

\* the objects with any subset of the fields, each holding any field value
EntryObjects ==
  UNION {{Obj(r) : r \in [D -> FieldValues]} :
           D \in SUBSET (CandidateFields \cup GenericFields)}

EntryScalars == {Undef, Null, NaN, Num(80), Num(0), NA, Bool(TRUE)}

Range(s) == {s[i] : i \in 1..Len(s)}

\* the lists of distinct elements of S
ListsOf(S) ==
  UNION {{p \in [1..n -> S] : \A i, j \in 1..n : p[i] = p[j] => i = j} :
           n \in 0..Cardinality(S)}

\* the rearrangements of a list of distinct elements
Permutations_(s) == {p \in ListsOf(Range(s)) : Len(p) = Len(s)}

ExtractInit ==
  /\ RestIdle
  /\ pc = "start"
  /\ thrown = FALSE
  /\ NormIdle
  /\ OptionIdle
  /\ TableIdle
  /\ DetailIdle
  /\ entry \in EntryObjects \cup EntryScalars
  /\ candidates \in ListsOf(CandidateFields)
  /\ value = Undef

Extract ==
  /\ pc = "start"
  /\ value' = extractMacroValue(entry, candidates)
  /\ pc' = "extracted"
  /\ UNCHANGED <<restVars, detailVars, thrown, normVars, optionVars, tableVars, entry, candidates>>

ExtractNext == Extract

SpecExtract == ExtractInit /\ [][ExtractNext]_vars

\* the numbers held by the fields F of e
NumbersIn(e, F) == {Field(e, f) : f \in {g \in F : safeNumber(Field(e, g)) # Null}}

AllGenericFields == {"overall", "zongti", "zongti_mojibake", "total", "mean"}

\* C6: when exactly one candidate field of the entry holds a number, every
\* permutation of the candidate list gives the same result, that number; and
\* the empty object gives null
C6_SingleMatchOrderFree ==
  pc = "extracted" =>
    /\ Cardinality(NumericCandidates(entry, candidates)) = 1 =>
         \A p \in Permutations_(candidates) :
           /\ extractMacroValue(entry, p) = value
           /\ {value} = NumbersIn(entry, Range(candidates))
    /\ entry = EmptyObj => value = Null

C6_Witness ==
  /\ pc = "extracted"
  /\ Len(candidates) = 3
  /\ Cardinality(NumericCandidates(entry, candidates)) = 1
  /\ NumericCandidates(entry, candidates) = {3}
  /\ NumbersIn(entry, GenericFields) # {}
  /\ value = Num(65)

\* C7: the ordered fallback. A numeric entry is returned as is; for an object
\* the first candidate, in list order, that holds a number is returned; when
\* no candidate holds a number, a number held by a generic field is returned;
\* null is returned only for a null or undefined entry or when none of these
\* fields holds a number
C7_OrderedFallback ==
  pc = "extracted" =>
    /\ ~thrown
    /\ entry.t = "num" => value = entry
    /\ IsNullish(entry) => value = Null
    /\ entry.t = "obj" =>
         IF NumericCandidates(entry, candidates) # {}
           THEN value = Field(entry, candidates[Min(NumericCandidates(entry, candidates))])
           ELSE IF NumbersIn(entry, AllGenericFields) # {}
             THEN value \in NumbersIn(entry, AllGenericFields)
             ELSE value = Null

-----------------------------------------------------------------------------
(* Specification of the option builder: any taxonomy of two regions and    *)
(* any name-translation map over a few names.                              *)

MaxDiseases == 2

Stomach == "Stomach"
Colorectum == "Colorectum"

\* local (taxonomy key) names; the empty string is a legal JSON key
CnNames == {"", "a", "A", "b"}

\* alternate (taxonomy value) names
EnNames == {Str("x"), Str("")}

\* the {cn: en} objects of at most MaxDiseases diseases
DiseaseMaps ==
  UNION {{Map([i \in 1..Len(cns) |-> <<cns[i], ens[i]>>]) :
            ens \in [1..Len(cns) -> EnNames]} :
           cns \in {l \in ListsOf(CnNames) : Len(l) <= MaxDiseases}}

NameMaps ==
  {Undef,
   Map(<< <<"a", Obj([name_cn |-> Str("n"), name_en |-> Str("m")])>> >>),
   Map(<< <<"b", Obj([name_en |-> Str("a")])>> >>)}

OptionStandards ==
  {Obj([disease_categories |-> Map(<< <<Stomach, s>>, <<Colorectum, c>> >>),
        disease_name_map |-> m]) :
     s \in DiseaseMaps, c \in DiseaseMaps, m \in NameMaps}

OptionInit ==
  /\ RestIdle
  /\ pc = "start"
  /\ thrown = FALSE
  /\ NormIdle
  /\ ExtractIdle
  /\ TableIdle
  /\ DetailIdle
  /\ standards \in OptionStandards
  /\ options = <<>>

BuildOptions ==
  /\ pc = "start"
  /\ options' = buildDiseaseOptionsFromStandards(standards)
  /\ pc' = "built"
  /\ UNCHANGED <<restVars, detailVars, thrown, normVars, extractVars, tableVars, standards>>

OptionNext == BuildOptions

SpecOptions == OptionInit /\ [][OptionNext]_vars

\* the first value of the list that is not empty (the empty string when none)
FirstNonEmpty(s) ==
  IF \E i \in 1..Len(s) : Truthy(s[i])
    THEN s[Min({i \in 1..Len(s) : Truthy(s[i])})]
    ELSE Str("")

\* C3: no two options share a key, and each key is the normalization of the
\* first non-empty name among the taxonomy's local name, its alternate name,
\* the resolved alternate display name and the resolved local display name
C3_KeysUniqueAndDerived ==
  pc = "built" =>
    /\ \A i, j \in 1..Len(options) : options[i].key = options[j].key => i = j
    /\ Len(options) = Len(TaxonomyEntries(standards))
    /\ \A i \in 1..Len(options) :
         LET e == TaxonomyEntries(standards)[i]
         IN options[i].key =
              normalizeDiseaseKey(FirstNonEmpty(
                <<Str(e[2]), e[3], options[i].disease_en, options[i].disease_cn>>))

\* looking a raw name up through the options' alias-key sets: the index of
\* the first option whose set holds its normalization, 0 when there is none
FindByAlias(opts, raw) ==
  LET hits == {i \in 1..Len(opts) :
                 normalizeDiseaseKey(Str(raw)) \in buildOptionKeySet(opts[i])}
  IN IF hits = {} THEN 0 ELSE Min(hits)

\* the other letter case of a character
SwapCase(c) ==
  CASE c = "a" -> "A"
    [] c = "b" -> "B"
    [] c = "A" -> "a"
    [] c = "B" -> "b"
    [] OTHER -> c

RECURSIVE SwapCases(_)
SwapCases(s) == IF s = "" THEN "" ELSE SwapCase(Head(s)) \o SwapCases(Tail(s))

\* a name in its case, whitespace and ordinal-prefix variants
Variants(n) ==
  {n, SwapCases(n), " " \o n \o " ", "1. " \o n}

\* the raw names that are aliases of the option: its source names and their
\* translation-map display names, in every variant
AliasNames(option) ==
  UNION {Variants(option.aliases[i].v) : i \in 1..Len(option.aliases)}

\* C4: any two raw names that are aliases of the same option resolve,
\* through the alias-key sets, to that option
C4_AliasesResolveToOption ==
  pc = "built" =>
    \A i \in 1..Len(options) :
      \A a, b \in AliasNames(options[i]) :
        FindByAlias(options, a) = i /\ FindByAlias(options, b) = i

-----------------------------------------------------------------------------
(* Specification of the ranked table (initHumanVsModel): a results document  *)
(* is loaded, the table is built sorted by q1, and the visitor changes the   *)
(* sort key, clicks rows and switches the language.                          *)

\* the standards document of the page: two physicians and their group average
PageStandards ==
  Obj([physician_names_en |->
         Map(<< <<"yisheng_a", Str("Dr. A")>>, <<"pingjun", Str("Doctors (Avg)")>> >>),
       physician_en_to_cn |-> Map(<< <<"Dr. B", Str("yisheng_b")>> >>)])

\* the participants with a visible row, and the individual physician
RankedNames == <<"GPT", "Llama", "Doctors (Avg)">>
HiddenName == "Dr. A"

\* scores in hundredths; "absent" leaves the participant out of the block
Absent == [t |-> "absent"]
ScoreChoices == {Absent, Num(80), Num(-200)}

\* the scores of the other blocks: GPT 0.80, Llama 0.65, Doctors (Avg) 0.70
BaseScores == <<Num(80), Num(65), Num(70)>>

\* the <<name, score>> pairs of a block, the individual physician first
Scored(scores) ==
  Eval(scores, LAMBDA a :
    << <<HiddenName, Num(90)>> >>
      \o SelectIndexes([i \in 1..Len(RankedNames) |-> <<RankedNames[i], a[i]>>],
                       {i \in 1..Len(RankedNames) : a[i] # Absent}))

MacroBlock(s1, s3) ==
  LET scoreOf(m, f, n) == Get(IF f = "anatomical" THEN m[1] ELSE m[2], n)
      fieldsOf(m, n) == {f \in {"anatomical", "diagnosis"} : scoreOf(m, f, n) # Undef}
      entryOf(m, n) == Obj([f \in fieldsOf(m, n) |-> scoreOf(m, f, n)])
  IN Eval(<<Map(Scored(s1)), Map(Scored(s3))>>, LAMBDA m :
       Eval(Distinct(Keys(m[1]) \o Keys(m[2])), LAMBDA names :
         Map([i \in 1..Len(names) |-> <<names[i], entryOf(m, names[i])>>])))

SpatialBlock(s2) ==
  Eval(Scored(s2), LAMBDA ps :
    Map([i \in 1..Len(ps) |->
          <<ps[i][1],
            Obj([type |-> Str("model"),
                 metrics |-> Obj([overall |-> Obj([mean_iou |-> ps[i][2]]),
                                  by_disease |-> EmptyMap])])>>]))

LikertStats(s) ==
  Eval(Scored(s), LAMBDA ps :
    Obj([basic_statistics |->
           Map([i \in 1..Len(ps) |->
                 <<ps[i][1],
                   Obj([total_score |-> Obj([mean |-> ps[i][2], std |-> Num(10)])])>>])]))

ResultsDocument(macro, spatial, likert) ==
  Obj([q1_q3_multiple_choice |->
         Obj([macro_avg_f1 |-> macro,
              anatomical_location_disease_f1 |-> EmptyMap,
              diagnosis_disease_f1 |-> EmptyMap]),
       q2_spatial_localization |-> Obj([participants |-> spatial]),
       q4_q5_likert |-> likert])

\* the document whose block of task k holds the scores given
TaskDocument(k, scores) ==
  LET of(q) == IF q = k THEN scores ELSE BaseScores
  IN ResultsDocument(
       MacroBlock(of("q1"), of("q3")),
       SpatialBlock(of("q2")),
       Map(<< <<"q4", LikertStats(of("q4"))>>, <<"Q5_recommendation", LikertStats(of("q5"))>> >>))

\* documents whose macro entry of GPT is any entry of the metric extractor
EntryDocument(e) ==
  ResultsDocument(
    Map(<< <<"GPT", e>>, <<"Llama", Obj([anatomical |-> Num(65)])>> >>),
    EmptyMap,
    \* two blocks of one task: the aggregate is their mean
    Map(<< <<"q4", LikertStats(BaseScores)>>,
           <<"findings", LikertStats(<<Num(60), Absent, NA>>)>> >>))

\* the macro entries of GPT: a bare value, or an object with any of three
\* fields, each a number or the text N/A
TableEntries ==
  {e \in EntryObjects :
     /\ DOMAIN e.v \subseteq {"anatomical", "overall", "mean"}
     /\ \A f \in DOMAIN e.v : e.v[f] \in {Num(80), NA}}
    \cup {Num(80), NA, NaN, Null}

\* a document whose findings block names Qwen, with a total score that is
\* no number, and no other block does
LikertOnlyDocument ==
  ResultsDocument(
    MacroBlock(BaseScores, BaseScores),
    SpatialBlock(BaseScores),
    Map(<< <<"q4", Obj([basic_statistics |->
                          Map(<< <<"GPT", Obj([total_score |-> Obj([mean |-> Num(80)])])>>,
                                 <<"Qwen", Obj([total_score |-> Obj([mean |-> NA])])>> >>)])>> >>))

TableDocuments ==
  {TaskDocument(k, s) : k \in SortKeys, s \in [1..Len(RankedNames) -> ScoreChoices]}
    \cup {EntryDocument(e) : e \in TableEntries}
    \cup {LikertOnlyDocument}
    \cup {Obj([q1_q3_multiple_choice |-> Null]), EmptyObj}

\* the values of the sort control
SortValues == SortKeys \cup {""}

Languages == {"zh", "en"}

refreshSelection_forgets(rs, sel) == Null

\* the selection after refresh()
refreshSelection(rs, sel) ==
  Eval(<<rs, sel>>, LAMBDA a :
    IF Len(a[1]) = 0 THEN a[2]
    ELSE IF ~Truthy(a[2]) \/ ~\E i \in 1..Len(a[1]) : Str(a[1][i].name) = a[2]
      THEN Str(a[1][1].name)
      ELSE a[2])

\* a mutation: a score is marked when it equals the maximum of its column
isMax_noNullTest(val, maxVal) == val = maxVal

\* isMax of renderParticipantTable
isMax(val, maxVal) == maxVal # Null /\ val # Null /\ val = maxVal

\* getColumnMax(rows): the maximum of each task column, null without a score
getColumnMax(rs) ==
  LET RECURSIVE maxOf(_, _)
      maxOf(k, n) ==
        IF n = 0 THEN Null
        ELSE Eval(maxOf(k, n - 1), LAMBDA prev :
               IF rs[n][k] # Null /\ (prev = Null \/ rs[n][k].v > prev.v)
                 THEN rs[n][k]
                 ELSE prev)
  IN [k \in SortKeys |-> maxOf(k, Len(rs))]

\* refresh(): the column maxima of the table drawn; none when there is no row
drawnColumnMax(rs) == IF Len(rs) = 0 THEN Undef ELSE getColumnMax(rs)

\* refresh(): the columns renderParticipantTable marks is-max in each row
drawnHighlights(rs, colMax) ==
  [i \in 1..Len(rs) |-> {k \in SortKeys : isMax(rs[i][k], colMax[k])}]

refreshedRows_firstKey(doc, std, by) == computeParticipantRows(doc, std, "q1")

\* refresh(): the rows are computed anew from the documents and the sort key
refreshedRows(doc, std, by) == computeParticipantRows(doc, std, by)

TableInit ==
  /\ BoardIdle
  /\ ClassifyIdle
  /\ LikertIdle
  /\ LateIdle
  /\ pc = "table"
  /\ thrown = FALSE
  /\ NormIdle
  /\ ExtractIdle
  /\ options = <<>>
  /\ DetailIdle
  /\ hvmData \in TableDocuments
  /\ standards = PageStandards
  /\ lang = "zh"
  /\ sortBy = "q1"
  /\ rows = computeParticipantRows(hvmData, standards, sortBy)
  /\ selectedName = IF Len(rows) > 0 THEN Str(rows[1].name) ELSE Null
  /\ columnMax = drawnColumnMax(rows)
  /\ highlighted = drawnHighlights(rows, columnMax)

\* the change handler of the sort control
SortChange ==
  \E v \in SortValues :
    /\ pc \in {"table", "page"}
    /\ sortBy' = IF v = "" THEN "q1" ELSE v
    /\ rows' = refreshedRows(hvmData, standards, sortBy')
    /\ selectedName' = refreshSelection(rows', selectedName)
    /\ columnMax' = drawnColumnMax(rows')
    /\ highlighted' = drawnHighlights(rows', columnMax')
    /\ UNCHANGED <<boardVars, classifyVars, likertVars, lateVars, detailVars, pc, thrown, normVars,
                   extractVars, optionVars, hvmData, lang>>

\* the click handler of the table body, for a click on a row
RowClick ==
  \E i \in 1..Len(rows) :
    /\ pc \in {"table", "page"}
    /\ rows[i].name # ""
    /\ rows' = refreshedRows(hvmData, standards, sortBy)
    /\ selectedName' = refreshSelection(rows', Str(rows[i].name))
    /\ columnMax' = drawnColumnMax(rows')
    /\ highlighted' = drawnHighlights(rows', columnMax')
    /\ UNCHANGED <<boardVars, classifyVars, likertVars, lateVars, detailVars, pc, thrown, normVars,
                   extractVars, optionVars, hvmData, lang, sortBy>>

\* setLanguage and the language listener of the table
TableLanguageChange ==
  \E l \in Languages :
    /\ pc = "table"
    /\ l # lang
    /\ lang' = l
    /\ rows' = refreshedRows(hvmData, standards, sortBy)
    /\ selectedName' = refreshSelection(rows', selectedName)
    /\ columnMax' = drawnColumnMax(rows')
    /\ highlighted' = drawnHighlights(rows', columnMax')
    /\ UNCHANGED <<boardVars, classifyVars, likertVars, lateVars, detailVars, pc, thrown, normVars,
                   extractVars, optionVars, hvmData, sortBy>>

TableNext == SortChange \/ RowClick \/ TableLanguageChange

SpecTable == TableInit /\ [][TableNext]_vars

\* the names of the rows, in order
RowNames(rs) == [i \in 1..Len(rs) |-> rs[i].name]

\* the position of x in the list s
IndexOf(s, x) == CHOOSE i \in 1..Len(s) : s[i] = x

\* the names of the rows in the order they had before the sort
NamesBeforeSort == RowNames(unsortedRows(hvmData, standards))

\* rows i < j are in the order the claim describes for the key k, given the
\* names in insertion order
InClaimedOrder(before, k, i, j) ==
  /\ rows[i][k] # Null /\ rows[j][k] # Null => rows[i][k].v >= rows[j][k].v
  /\ rows[i][k] = Null => rows[j][k] = Null
  /\ rows[i][k] = rows[j][k] =>
       IndexOf(before, rows[i].name) < IndexOf(before, rows[j].name)

ParticipantNames(doc) ==
  Range(Keys(Or(Field(Or(Field(doc, "q1_q3_multiple_choice"), EmptyObj), "macro_avg_f1"), EmptyMap)))
    \cup Range(Keys(Or(Field(Or(Field(doc, "q2_spatial_localization"), EmptyObj), "participants"), EmptyMap)))
    \cup Range(Keys(computeLikertScores(Or(Field(doc, "q4_q5_likert"), EmptyMap), "q4")))
    \cup Range(Keys(computeLikertScores(Or(Field(doc, "q4_q5_likert"), EmptyMap), "q5")))

Malformed(x) == x = NaN \/ x = NA

\* the document with every malformed value replaced by a missing field
RECURSIVE WithoutMalformed(_)
WithoutMalformed(x) ==
  IF x.t = "obj"
    THEN Obj([f \in {g \in DOMAIN x.v : ~Malformed(x.v[g])} |-> WithoutMalformed(x.v[f])])
  ELSE IF x.t = "map"
    THEN Map(SelectIndexes([i \in 1..Len(x.v) |-> <<x.v[i][1], WithoutMalformed(x.v[i][2])>>],
                           {i \in 1..Len(x.v) : ~Malformed(x.v[i][2])}))
  ELSE x

\* C5 as stated, for the ranked rows: replacing every NaN or N/A score by a
\* missing field yields the same rows, and no row shows such a value as 0
C5_MalformedSameAsAbsent ==
  pc = "table" =>
    /\ rows = computeParticipantRows(WithoutMalformed(hvmData), standards, sortBy)
    /\ hvmData # WithoutMalformed(hvmData) =>
         \A i \in 1..Len(rows) : \A k \in SortKeys : rows[i][k] # Num(0)

-----------------------------------------------------------------------------
(* Specification of the detail card (initHumanDetailCard): the options are   *)
(* built, the first option's chart of the first task is drawn, and the       *)
(* visitor switches tabs, options and the language.                          *)

\* the standards document with a taxonomy of two diseases
TaxonomyStandards ==
  Obj([physician_names_en |-> Field(PageStandards, "physician_names_en"),
       physician_en_to_cn |-> Field(PageStandards, "physician_en_to_cn"),
       disease_categories |->
         Map(<< <<"Stomach", Map(<< <<"xirou", Str("Polyp")>>,
                                    <<"kuiyang", Str("Ulcer")>> >>)>> >>)])

\* the disease names under which a score table is filed
DiseaseNames == {"xirou", "1. Polyp", "kuiyang"}

\* the <<name, score, wrapped>> lists of a score table
ScoreLists ==
  {<< <<"GPT", Num(80), TRUE>>, <<"Dr. A", Num(70), TRUE>>, <<"Doctors (Avg)", Num(75), TRUE>> >>,
   << <<"GPT", Num(80), FALSE>>, <<"Llama", Num(65), TRUE>>, <<"Dr. B", Num(60), FALSE>> >>,
   << <<"Dr. A", NA, TRUE>>, <<"Dr. B", Num(60), FALSE>> >>}

\* the lists of at most two <<disease name, score list>> pairs, names distinct
ScoreTables ==
  {<<>>}
    \cup {<< <<d, l>> >> : d \in DiseaseNames, l \in ScoreLists}
    \cup {t \in {<< <<d1, l1>>, <<d2, l2>> >> :
                   d1 \in DiseaseNames, d2 \in DiseaseNames,
                   l1 \in ScoreLists, l2 \in ScoreLists} :
            t[1][1] # t[2][1]}

BaseTable ==
  << <<"xirou", << <<"GPT", Num(80), TRUE>>, <<"Dr. A", Num(70), TRUE>>,
                   <<"Doctors (Avg)", Num(75), TRUE>> >> >> >>

\* the entry of a participant in the score table of a task
Cell(task, x, wrapped) ==
  CASE task \in {"q1", "q3"} ->
         IF wrapped THEN Obj([value |-> x, std |-> Num(5)]) ELSE x
    [] task = "q2" ->
         IF wrapped THEN Obj([mean_iou |-> x, overall |-> Obj([mean_iou |-> Num(55)]),
                              std_error |-> Num(5), total |-> Num(2)])
         ELSE Obj([mean_iou |-> x])
    [] OTHER ->
         IF wrapped THEN Obj([mean |-> x, std |-> Num(5), sample_size |-> Num(2)]) ELSE x

\* the mapping of disease names to score tables
DiseaseTable(task, tbl) ==
  LET cells(l) == Map([j \in 1..Len(l) |-> <<l[j][1], Cell(task, l[j][2], l[j][3])>>])
  IN Eval(tbl, LAMBDA t : Map([i \in 1..Len(t) |-> <<t[i][1], cells(t[i][2])>>]))

\* the participants of the region task, each with the diseases it has a
\* score list entry under
SpatialParticipants(tbl) ==
  LET namesOf(t) == Distinct(Concat([i \in 1..Len(t) |->
                                       [j \in 1..Len(t[i][2]) |-> t[i][2][j][1]]]))
      cellsUnder(d, l, n) ==
        SelectIndexes([j \in 1..Len(l) |-> <<d, Cell("q2", l[j][2], l[j][3])>>],
                      {j \in 1..Len(l) : l[j][1] = n})
      cells(t, n) == Concat([i \in 1..Len(t) |-> cellsUnder(t[i][1], t[i][2], n)])
      participant(t, n) ==
        Obj([type |-> IF n = "GPT" THEN Str("model") ELSE Str("gaonianzi"),
             metrics |-> Obj([overall |-> Obj([mean_iou |-> Num(70)]),
                              by_disease |-> Map(cells(t, n))])])
  IN Eval(tbl, LAMBDA t :
       Eval(namesOf(t), LAMBDA names :
         Map([i \in 1..Len(names) |-> <<names[i], participant(t, names[i])>>])))

\* the document whose score tables of task k are the ones given
DetailDocument(k, tbl) ==
  LET of(q) == IF q = k THEN tbl ELSE BaseTable
  IN Obj([q1_q3_multiple_choice |->
            Obj([macro_avg_f1 |-> MacroBlock(BaseScores, BaseScores),
                 anatomical_location_disease_f1 |-> DiseaseTable("q1", of("q1")),
                 diagnosis_disease_f1 |-> DiseaseTable("q3", of("q3"))]),
          q2_spatial_localization |-> Obj([participants |-> SpatialParticipants(of("q2"))]),
          q4_q5_likert |->
            Map(<< <<"q4", LikertStats(BaseScores)>>,
                   <<"q5", LikertStats(BaseScores)>>,
                   <<"q4_per_disease", DiseaseTable("q4", of("q4"))>>,
                   <<"q5_per_disease", DiseaseTable("q5", of("q5"))>> >>)])

\* the standards document whose taxonomy holds no disease
EmptyTaxonomyStandards ==
  Obj([physician_names_en |-> Field(PageStandards, "physician_names_en"),
       physician_en_to_cn |-> Field(PageStandards, "physician_en_to_cn"),
       disease_categories |-> Map(<< <<"Stomach", EmptyMap>> >>)])

\* a score table filed under a disease name that no other task has
LikertOnlyTable ==
  << <<"kuiyang", << <<"GPT", Num(80), TRUE>>, <<"Llama", Num(65), TRUE>> >> >> >>

\* a score table that holds a model whose name ends in (Avg)
AverageModelTable ==
  << <<"xirou", << <<"GPT", Num(80), TRUE>>, <<"Ensemble (Avg)", Num(85), TRUE>> >> >> >>

\* with a taxonomy, every score table of every task; without one, a few
DetailInputs ==
  {<<DetailDocument(k, tbl), TaxonomyStandards>> : k \in SortKeys, tbl \in ScoreTables}
    \cup {<<DetailDocument("q3", tbl), PageStandards>> :
            tbl \in {t \in ScoreTables : Len(t) = 2 /\ t[1][2] = t[2][2]}}
    \cup {<<DetailDocument("q4", LikertOnlyTable), PageStandards>>,
           <<DetailDocument("q2", LikertOnlyTable), EmptyTaxonomyStandards>>,
           <<DetailDocument("q1", AverageModelTable), TaxonomyStandards>>}
    \cup {<<EmptyObj, PageStandards>>}

\* the index of the option getCurrentOption() returns, 0 for null
currentOptionIndex(opts, k) ==
  Eval({i \in 1..Len(opts) : Str(opts[i].key) = k}, LAMBDA found :
    IF found # {} THEN Min(found) ELSE 0)

renderOptionsKey_alwaysNull(opts, k) == Null

\* currentOptionKey after renderOptions()
renderOptionsKey(opts, k) ==
  IF Len(opts) = 0 THEN Null
  ELSE IF \E i \in 1..Len(opts) : Str(opts[i].key) = k THEN k
  ELSE Str(opts[1].key)

\* the items renderChart() draws
renderChartItems(doc, tab, opts, k, std) ==
  Eval(currentOptionIndex(opts, k), LAMBDA i :
    IF i = 0 THEN <<>> ELSE collectHumanChartItems(doc, tab, opts[i], std))

DetailInit ==
  /\ RestIdle
  /\ pc = "detail"
  /\ thrown = FALSE
  /\ NormIdle
  /\ ExtractIdle
  /\ \E input \in DetailInputs : hvmData = input[1] /\ standards = input[2]
  /\ lang = "zh"
  /\ sortBy = "q1"
  /\ rows = <<>>
  /\ selectedName = Null
  /\ options = Eval(buildDiseaseOptionsFromStandards(standards), LAMBDA standardOptions :
                    IF Len(standardOptions) > 0 THEN standardOptions
                    ELSE buildOptionsFromData(hvmData))
  /\ currentTab = "q1"
  /\ currentOptionKey =
       renderOptionsKey(options, IF Len(options) > 0 THEN Or(Str(options[1].key), Null) ELSE Null)
  /\ chartItems = renderChartItems(hvmData, currentTab, options, currentOptionKey, standards)
  /\ noOption = (currentOptionIndex(options, currentOptionKey) = 0)

\* the click handler of a tab button
TabClick ==
  \E tab \in SortKeys :
    /\ pc \in {"detail", "page"}
    /\ currentTab' = tab
    /\ chartItems' = renderChartItems(hvmData, tab, options, currentOptionKey, standards)
    /\ noOption' = (currentOptionIndex(options, currentOptionKey) = 0)
    /\ UNCHANGED <<restVars, pc, thrown, normVars, extractVars, optionVars, tableVars, currentOptionKey>>

\* the change handler of the option control, for the i-th option chosen
OptionChange ==
  \E i \in 1..Len(options) :
    /\ pc \in {"detail", "page"}
    /\ currentOptionKey' = Str(options[i].key)
    /\ chartItems' = renderChartItems(hvmData, currentTab, options, currentOptionKey', standards)
    /\ noOption' = (currentOptionIndex(options, currentOptionKey') = 0)
    /\ UNCHANGED <<restVars, pc, thrown, normVars, extractVars, optionVars, tableVars, currentTab>>

\* setLanguage and the language listener of the card: renderOptions()
DetailLanguageChange ==
  \E l \in Languages :
    /\ pc = "detail"
    /\ l # lang
    /\ lang' = l
    /\ currentOptionKey' = renderOptionsKey(options, currentOptionKey)
    /\ chartItems' = renderChartItems(hvmData, currentTab, options, currentOptionKey', standards)
    /\ noOption' = (currentOptionIndex(options, currentOptionKey') = 0)
    /\ UNCHANGED <<restVars, pc, thrown, normVars, extractVars, optionVars,
                   hvmData, sortBy, rows, selectedName, currentTab>>

DetailNext == TabClick \/ OptionChange \/ DetailLanguageChange

SpecDetail == DetailInit /\ [][DetailNext]_vars

\* the physicians the standards document names
KnownPhysicians(std) ==
  {Values(Field(std, "physician_names_en"))[i].v :
     i \in 1..Len(Values(Field(std, "physician_names_en")))}
    \cup Range(Keys(Field(std, "physician_en_to_cn")))

\* the scores recorded for participant n under the disease names of the tab
\* that are in the option's key set, in document order, null where the score
\* table has no number for n; for a Likert tab without such a disease name,
\* the overall aggregate of n
ScoresFor(doc, tab, option, n) ==
  LET keySet == buildOptionKeySet(option)
      field == IF tab \in {"q1", "q3"} THEN "value" ELSE "mean"
      tables == Entries(Or(diseaseMapping(doc, tab), EmptyMap))
      diseases ==
        Entries(Or(Field(Field(Get(Or(Field(Field(doc, "q2_spatial_localization"), "participants"),
                                      EmptyMap), n),
                               "metrics"), "by_disease"), EmptyMap))
      named(es) == SelectIndexes(es, {i \in 1..Len(es) :
                                        normalizeDiseaseKey(Str(es[i][1])) \in keySet})
      ofTables == [i \in 1..Len(named(tables)) |->
                     safeNumber(Coalesce(Field(Get(named(tables)[i][2], n), field),
                                         Get(named(tables)[i][2], n)))]
      ofDiseases == [i \in 1..Len(named(diseases)) |->
                       safeNumber(Coalesce(Field(named(diseases)[i][2], "mean_iou"),
                                  Coalesce(Field(Field(named(diseases)[i][2], "overall"), "mean_iou"),
                                           Field(named(diseases)[i][2], "meanIoU"))))]
      aggregate == safeNumber(Field(Get(computeLikertScores(
                                          Or(Field(doc, "q4_q5_likert"), EmptyMap), tab), n),
                                    "mean"))
  IN IF tab = "q2" THEN ofDiseases
     ELSE IF tab \in {"q4", "q5"} /\ Len(ofTables) = 0 THEN <<aggregate>>
     ELSE ofTables

\* the option of the chart drawn
ChartOption == options[currentOptionIndex(options, currentOptionKey)]

\* C10 as stated: the chart items hold no entry whose name ends in (Avg), and
\* hold every individual physician with a numeric value for the option
C10_IndividualsShownAverageHidden ==
  pc = "detail" /\ ~noOption =>
    /\ \A i \in 1..Len(chartItems) : ~endsWith(chartItems[i].name, "(Avg)")
    /\ \A n \in KnownPhysicians(standards) :
         /\ ~endsWith(n, "(Avg)")
         /\ \E k \in 1..Len(ScoresFor(hvmData, currentTab, ChartOption, n)) :
              ScoresFor(hvmData, currentTab, ChartOption, n)[k] # Null
         => \E i \in 1..Len(chartItems) : chartItems[i].name = n

\* C10: the chart items hold no entry whose name ends in (Avg), and hold
\* every individual physician with a numeric value under the first disease
\* name, in document order, that is in the option's key set
C10_FirstMatchIndividualsShown ==
  pc = "detail" /\ ~noOption =>
    /\ \A i \in 1..Len(chartItems) : ~endsWith(chartItems[i].name, "(Avg)")
    /\ \A n \in KnownPhysicians(standards) :
         LET scores == ScoresFor(hvmData, currentTab, ChartOption, n)
         IN ~endsWith(n, "(Avg)") /\ Len(scores) > 0 /\ scores[1] # Null
              => \E i \in 1..Len(chartItems) :
                   /\ chartItems[i].name = n
                   /\ chartItems[i].value = scores[1]
                   /\ chartItems[i].isDoctor

\* the diagnosis tab was opened; its score table holds the group average and
\* an individual physician; the chart shows the individual, whom the overall
\* ranking of the same document hides
C10_Witness ==
  /\ pc = "detail"
  /\ currentTab = "q3"
  /\ ~noOption
  /\ ScoresFor(hvmData, currentTab, ChartOption, "Doctors (Avg)") = <<Num(75)>>
  /\ \E i \in 1..Len(chartItems) : chartItems[i].name = "Dr. A" /\ chartItems[i].isDoctor
  /\ "Dr. A" \in ParticipantNames(hvmData)
  /\ "Dr. A" \notin Range(RowNames(computeParticipantRows(hvmData, standards, "q1")))
  /\ "Doctors (Avg)" \in Range(RowNames(computeParticipantRows(hvmData, standards, "q1")))

-----------------------------------------------------------------------------
(* C11: one chart item per participant with a score for the disease *)

\* every participant the detail documents name
DetailNames == {"GPT", "Llama", "Dr. A", "Dr. B", "Doctors (Avg)"}

\* the names of the chart items, in order
ChartNames == [i \in 1..Len(chartItems) |-> chartItems[i].name]

\* the participants, group averages aside, with a number among the scores
\* recorded under any disease name in the option's key set
ScoredUnderAnyName ==
  {n \in DetailNames :
     /\ ~endsWith(n, "(Avg)")
     /\ \E scores \in {ScoresFor(hvmData, currentTab, ChartOption, n)} :
          \E k \in 1..Len(scores) : scores[k] # Null}

\* the participants, group averages aside, with a number under the first
\* disease name, in document order, in the option's key set
ScoredUnderFirstName ==
  {n \in DetailNames :
     /\ ~endsWith(n, "(Avg)")
     /\ \E scores \in {ScoresFor(hvmData, currentTab, ChartOption, n)} :
          Len(scores) > 0 /\ scores[1] # Null}

\* C11 as stated: on the tabs q1, q2 and q3 the chart holds exactly one item
\* for each participant, group averages aside, that has a numeric score under
\* any disease name that resolves to the option, and no item for anyone else
C11_OneItemPerScoredParticipant ==
  pc = "detail" /\ ~noOption /\ currentTab \in {"q1", "q2", "q3"} =>
    /\ \A i, j \in 1..Len(chartItems) : chartItems[i].name = chartItems[j].name => i = j
    /\ Range(ChartNames) = ScoredUnderAnyName

\* C11: on the tabs q1, q2 and q3 the chart holds exactly one item for each
\* participant, group averages aside, that has a numeric score under the
\* first disease name, in document order, that resolves to the option; the
\* item carries that score; there is no item for anyone else
C11_OneItemPerFirstMatchScore ==
  pc = "detail" /\ ~noOption /\ currentTab \in {"q1", "q2", "q3"} =>
    /\ \A i, j \in 1..Len(chartItems) : chartItems[i].name = chartItems[j].name => i = j
    /\ Range(ChartNames) = ScoredUnderFirstName
    /\ \A i \in 1..Len(chartItems) :
         chartItems[i].value = ScoresFor(hvmData, currentTab, ChartOption, chartItems[i].name)[1]

\* the diagnosis tab of a document that names five participants, three of
\* them with a score for the disease of the option: the chart holds those
\* three and nothing for the two participants without the disease
C11_Witness ==
  /\ pc = "detail"
  /\ currentTab = "q3"
  /\ ~noOption
  /\ {"Dr. A", "Doctors (Avg)"} \subseteq ParticipantNames(hvmData)
  /\ ChartNames = <<"GPT", "Llama", "Dr. B">>
  /\ ScoresFor(hvmData, currentTab, ChartOption, "Dr. A") = <<Null>>
  /\ ScoresFor(hvmData, currentTab, ChartOption, "Doctors (Avg)") = <<Null>>

-----------------------------------------------------------------------------
(* Model leaderboard (assets/js/leaderboard.js): the options and the chart *)
(* items of its detail card                                                *)

\* the elements of (x || []) for an array or a missing value
Elements(x) == Eval(x, LAMBDA a : IF a.t = "arr" THEN a.v ELSE <<>>)

\* normalizeDiseaseKey of leaderboard.js: no ordinal prefix is stripped
boardNormalizeDiseaseKey(x) == toLowerCase(trim(toString(Or(x, Str("")))))

\* buildOptionKeySet of leaderboard.js
boardOptionKeySet(option) ==
  Eval(<<Str(option.key), option.disease_cn, option.disease_en>>
         \o (IF "aliases" \in DOMAIN option THEN option.aliases ELSE <<>>), LAMBDA ks :
    {boardNormalizeDiseaseKey(ks[i]) : i \in 1..Len(ks)} \ {""})

\* buildDiseaseOptionsFromStandards of leaderboard.js: the options of the
\* taxonomy, their keys normalized by the leaderboard's normalizer
boardStandardOptions(std) ==
  LET rekeyed(o, cn, en) ==
        [o EXCEPT !.key = boardNormalizeDiseaseKey(
                            Or(Str(cn), Or(en, Or(o.disease_en, o.disease_cn))))]
      option(regionEn, cn, en, nameMap) ==
        Eval(standardOption(regionEn, cn, en, nameMap), LAMBDA o : rekeyed(o, cn, en))
  IN IF ~Truthy(Field(std, "disease_categories")) THEN <<>>
     ELSE Eval(<<Or(Field(std, "disease_name_map"), EmptyMap), TaxonomyEntries(std)>>, LAMBDA a :
            [i \in 1..Len(a[2]) |-> option(a[2][i][1], a[2][i][2], a[2][i][3], a[1])])

\* d.disease_cn || d.disease || d.disease_type || d.disease_en, and the order
\* of the region task
Q1NameFields == <<"disease_cn", "disease", "disease_type", "disease_en">>
Q2NameFields == <<"disease_cn", "disease_type", "disease", "disease_en">>

\* the first truthy of the fields given of d, else the last of them
diseaseNameOf(d, fields) ==
  Or(Field(d, fields[1]), Or(Field(d, fields[2]), Or(Field(d, fields[3]), Field(d, fields[4]))))

\* record?.tasks?.[task]?.per_disease || []
perDiseaseList(record, task) ==
  Elements(Or(Field(Field(Field(record, "tasks"), task), "per_disease"), Arr(<<>>)))

\* buildQ1Options and buildQ2Options: one option per distinct key of the
\* per-disease records of the task, in order of region and disease name
buildOptionsFromModels(mods, task, fields) ==
  LET option(d) ==
        [key |-> boardNormalizeDiseaseKey(diseaseNameOf(d, fields)),
         disease_cn |-> Or(Field(d, fields[1]), Or(Field(d, fields[2]), Field(d, fields[3]))),
         disease_en |-> Field(d, "disease_en"),
         location_cn |-> Field(d, "location_cn"),
         location_en |-> Field(d, "location_en")]
      all(records) ==
        Concat([r \in 1..Len(records) |->
                  Eval(perDiseaseList(records[r], task), LAMBDA list :
                    [i \in 1..Len(list) |-> option(list[i])])])
      firsts(os) ==
        SelectIndexes(os, {i \in 1..Len(os) :
                             os[i].key # "" /\ \A j \in 1..(i - 1) : os[j].key # os[i].key})
      text(x) == Or(x, Str("")).v
      compare(a, b) ==
        Eval(localeCompare(text(a.location_cn), text(b.location_cn)), LAMBDA locCmp :
          IF locCmp # 0 THEN locCmp ELSE localeCompare(text(a.disease_cn), text(b.disease_cn)))
      before(os, i) == Cardinality({j \in 1..Len(os) : compare(os[j], os[i]) < 0})
  IN Eval(Values(Or(mods, EmptyMap)), LAMBDA records :
       Eval(all(records), LAMBDA found :
         Eval(firsts(found), LAMBDA os :
           sorted(os, [i \in 1..Len(os) |-> 0 - before(os, i)]))))

\* the regions of buildQ3Options, in order: region key, taxonomy name, name
\* in Chinese
Q3Regions ==
  << <<"esophagus", "Esophagus", "shiguan">>,
     <<"stomach", "Stomach", "wei">>,
     <<"colo", "Colorectum", "jiezhichang">> >>

\* buildQ3Options: one option per disease of a region, keyed by the region
\* and the position of the disease in the taxonomy
buildQ3Options(std) ==
  LET option(region, diseases, idx) ==
        [key |-> region[1] \o "__" \o DecStr(idx),
         region_key |-> region[1],
         disease_index |-> idx,
         disease_cn |-> Str(diseases[idx][1]),
         disease_en |-> diseases[idx][2],
         location_cn |-> Str(region[3]),
         location_en |-> Str(region[2])]
      ofRegion(region, diseases) ==
        [idx \in 1..Len(diseases) |-> option(region, diseases, idx)]
  IN Eval(Or(Field(std, "disease_categories"), EmptyMap), LAMBDA categories :
       Concat([r \in 1..Len(Q3Regions) |->
                 Eval(Entries(Or(Get(categories, Q3Regions[r][2]), EmptyMap)), LAMBDA diseases :
                   ofRegion(Q3Regions[r], diseases))]))

perDiseaseEntry_ordinalAsIndex(list, ordinal) ==
  IF ordinal + 1 \in 1..Len(list) THEN list[ordinal + 1] ELSE Undef

\* region.per_disease[option.disease_index - 1]: the entry at the position
\* of the ordinal, undefined outside the list
perDiseaseEntry(list, ordinal) ==
  IF ordinal \in 1..Len(list) THEN list[ordinal] ELSE Undef

\* the value of a model for an option on a tab, null for none
modelValue(subtab, option, optionKeys, record) ==
  LET named(list, fields, score) ==
        Eval({i \in 1..Len(list) :
                boardNormalizeDiseaseKey(diseaseNameOf(list[i], fields)) \in optionKeys},
             LAMBDA found :
               IF found = {} THEN Null ELSE safeNumber(Field(list[Min(found)], score)))
      atIndex(region, idx) ==
        IF ~Truthy(region) \/ Field(region, "per_disease").t # "arr" THEN Null
        ELSE Eval(Field(region, "per_disease").v, LAMBDA list :
               safeNumber(Field(perDiseaseEntry(list, idx), "f1_score")))
      ofRegion(regions) ==
        Eval({i \in 1..Len(regions) : Field(regions[i], "region_key") = Str(option.region_key)},
             LAMBDA found :
               atIndex(IF found = {} THEN Undef ELSE regions[Min(found)], option.disease_index))
  IN CASE subtab = "q1" ->
            Eval(perDiseaseList(record, "q1_anatomical_robustness"), LAMBDA list :
              named(list, Q1NameFields, "f1_score"))
       [] subtab = "q2" ->
            Eval(perDiseaseList(record, "q2_spatial_localization"), LAMBDA list :
              named(list, Q2NameFields, "overall_avg_iou"))
       [] subtab = "q3" ->
            Eval(Elements(Or(Field(Field(Field(record, "tasks"),
                                         "q3_diagnosis_regional_robustness"), "regions"),
                             Arr(<<>>))),
                 LAMBDA regions : ofRegion(regions))
       [] OTHER -> Null

\* a mutation: the items stay in the order of the model records
unsortedChartItems(items) == items

\* items.sort((a, b) => (b.value ?? -1) - (a.value ?? -1))
sortChartItems(items) ==
  Eval(items, LAMBDA a : sorted(a, [i \in 1..Len(a) |-> sortRank(a[i].value)]))

\* collectChartItems for an option that is not null
collectChartItems(subtab, option, mods) ==
  LET item(n, v) == [model |-> n, value |-> v]
      all(records, optionKeys) ==
        [i \in 1..Len(records) |->
           item(records[i][1], modelValue(subtab, option, optionKeys, records[i][2]))]
  IN Eval(<<Entries(Or(mods, EmptyMap)), boardOptionKeySet(option)>>, LAMBDA a :
       Eval(all(a[1], a[2]), LAMBDA items :
         sortChartItems(SelectIndexes(items, {i \in 1..Len(items) : items[i].value # Null}))))

-----------------------------------------------------------------------------
(* Specification of the detail card of the model leaderboard: any tab, any *)
(* option of the tab, either language.                                     *)

\* the per-disease records of a model, as <<name field, name, score>>
DiseaseProfiles ==
  {<< <<"disease_cn", "xirou", Num(80)>>, <<"disease_cn", "kuiyang", Num(65)>> >>,
   << <<"disease_en", "Polyp", Num(70)>> >>,
   << <<"disease_cn", "xirou", NA>>, <<"disease", "XiRou", Num(90)>> >>,
   << <<"disease_type", "kuiyang", Num(80)>>, <<"disease_cn", "", Num(50)>> >>,
   <<>>}

\* the per_disease array of a profile, the score under the field given
diseaseRecords(profile, score) ==
  Arr([i \in 1..Len(profile) |->
         Obj((profile[i][1] :> Str(profile[i][2])) @@ (score :> profile[i][3])
               @@ [location_cn |-> Str("wei")])])

\* the record of a model with the profile: the empty profile has no tasks
modelRecord(profile) ==
  IF profile = <<>> THEN Obj([summary |-> EmptyObj])
  ELSE Obj([tasks |->
         Obj([q1_anatomical_robustness |-> Obj([per_disease |-> diseaseRecords(profile, "f1_score")]),
              q2_spatial_localization |->
                Obj([per_disease |-> diseaseRecords(profile, "overall_avg_iou")]),
              q3_diagnosis_regional_robustness |->
                Obj([regions |->
                       Arr(<<Obj([region_key |-> Str("colo")]),
                             Obj([region_key |-> Str("stomach"),
                                  per_disease |-> diseaseRecords(profile, "f1_score")])>>)])])])

\* two models of any profiles and a third with or without records, with the
\* taxonomy or without one
ThreeRegionStandards ==
  Obj([disease_categories |->
         Map(<< <<"Esophagus", Map(<< <<"yan", Str("Esophagitis")>> >>)>>,
                <<"Stomach", Map(<< <<"xirou", Str("Polyp")>>,
                                    <<"kuiyang", Str("Ulcer")>>,
                                    <<"ai", Str("Cancer")>> >>)>>,
                <<"Colorectum", Map(<< <<"xirou", Str("Polyp")>> >>)>> >>)])

BoardInputs ==
  {<<Map(<< <<"GPT", modelRecord(p1)>>, <<"Llama", modelRecord(p2)>>,
            <<"Qwen", modelRecord(p3)>> >>), std>> :
     p1 \in DiseaseProfiles, p2 \in DiseaseProfiles,
     p3 \in {<<>>, << <<"disease_cn", "xirou", Num(80)>>, <<"disease_cn", "kuiyang", Num(65)>> >>},
     std \in {TaxonomyStandards, PageStandards}}
    \cup {<<Map(<< <<"GPT", modelRecord(p1)>>, <<"Llama", modelRecord(p2)>> >>),
             ThreeRegionStandards>> :
            p1 \in DiseaseProfiles, p2 \in {<<>>, << <<"disease_en", "Polyp", Num(70)>> >>}}
    \cup {<<Undef, PageStandards>>}

BoardTabs == {"q1", "q2", "q3"}

\* optionsByTab of initDetailCard
boardOptionsByTab(mods, std) ==
  Eval(boardStandardOptions(std), LAMBDA standardDiseaseOptions :
    [q1 |-> IF Len(standardDiseaseOptions) > 0 THEN standardDiseaseOptions
            ELSE buildOptionsFromModels(mods, "q1_anatomical_robustness", Q1NameFields),
     q2 |-> IF Len(standardDiseaseOptions) > 0 THEN standardDiseaseOptions
            ELSE buildOptionsFromModels(mods, "q2_spatial_localization", Q2NameFields),
     q3 |-> buildQ3Options(std)])

\* optionsByTab[currentTab][0]?.key || null
firstOptionKey(opts) == IF Len(opts) > 0 THEN Or(Str(opts[1].key), Null) ELSE Null

\* the items renderChart() of the leaderboard draws
boardChartItems(tab, opts, k, mods) ==
  Eval(currentOptionIndex(opts, k), LAMBDA i :
    IF i = 0 THEN <<>> ELSE collectChartItems(tab, opts[i], mods))

BoardInit ==
  /\ pc = "board"
  /\ thrown = FALSE
  /\ LaterIdle
  /\ NormIdle
  /\ ExtractIdle
  /\ options = <<>>
  /\ hvmData = Undef
  /\ sortBy = "q1"
  /\ rows = <<>>
  /\ selectedName = Null
  /\ \E input \in BoardInputs : models = input[1] /\ standards = input[2]
  /\ lang = "zh"
  /\ optionsByTab = boardOptionsByTab(models, standards)
  /\ currentTab = "q1"
  /\ currentOptionKey = renderOptionsKey(optionsByTab["q1"], firstOptionKey(optionsByTab["q1"]))
  /\ chartItems = boardChartItems(currentTab, optionsByTab["q1"], currentOptionKey, models)
  /\ noOption = (currentOptionIndex(optionsByTab["q1"], currentOptionKey) = 0)

\* the click handler of a tab button
BoardTabClick ==
  \E tab \in BoardTabs :
    /\ pc = "board"
    /\ currentTab' = tab
    /\ currentOptionKey' = renderOptionsKey(optionsByTab[tab], firstOptionKey(optionsByTab[tab]))
    /\ chartItems' = boardChartItems(tab, optionsByTab[tab], currentOptionKey', models)
    /\ noOption' = (currentOptionIndex(optionsByTab[tab], currentOptionKey') = 0)
    /\ UNCHANGED <<pc, thrown, normVars, extractVars, optionVars, tableVars, restVars>>

\* the change handler of the option control, for the i-th option chosen
BoardOptionChange ==
  /\ pc = "board"
  /\ \E i \in 1..Len(optionsByTab[currentTab]) :
       /\ currentOptionKey' = Str(optionsByTab[currentTab][i].key)
       /\ chartItems' = boardChartItems(currentTab, optionsByTab[currentTab], currentOptionKey', models)
       /\ noOption' = (currentOptionIndex(optionsByTab[currentTab], currentOptionKey') = 0)
       /\ UNCHANGED <<pc, thrown, normVars, extractVars, optionVars, tableVars, restVars, currentTab>>

\* setLanguage and the language listener of the card: renderOptions()
BoardLanguageChange ==
  \E l \in Languages :
    /\ pc = "board"
    /\ l # lang
    /\ lang' = l
    /\ currentOptionKey' = renderOptionsKey(optionsByTab[currentTab], currentOptionKey)
    /\ chartItems' = boardChartItems(currentTab, optionsByTab[currentTab], currentOptionKey', models)
    /\ noOption' = (currentOptionIndex(optionsByTab[currentTab], currentOptionKey') = 0)
    /\ UNCHANGED <<pc, thrown, normVars, extractVars, optionVars, restVars,
                   hvmData, sortBy, rows, selectedName, currentTab>>

BoardNext == BoardTabClick \/ BoardOptionChange \/ BoardLanguageChange

SpecBoard == BoardInit /\ [][BoardNext]_vars

-----------------------------------------------------------------------------
(* C12: the chart items of both detail cards *)

\* the detail card of the comparison page or the one of the model leaderboard
ChartsInit == DetailInit \/ BoardInit

ChartsNext == DetailNext \/ BoardNext

SpecCharts == ChartsInit /\ [][ChartsNext]_vars

\* C12: the chart items drawn by either detail card are in non-increasing
\* order of value, and every value is a number (never null, never NaN)
C12_SortedWithoutNulls ==
  pc \in {"detail", "board"} =>
    /\ \A i \in 1..Len(chartItems) : chartItems[i].value.t = "num"
    /\ \A i, j \in 1..Len(chartItems) :
         i < j => chartItems[i].value.v >= chartItems[j].value.v

\* the leaderboard chart of a disease for which the first model scores 0.70,
\* the second has a record without a number and the third scores 0.80: the
\* third comes first and the second has no item
C12_Witness ==
  /\ pc = "board"
  /\ currentTab = "q1"
  /\ ~noOption
  /\ chartItems = <<[model |-> "Qwen", value |-> Num(80)], [model |-> "GPT", value |-> Num(70)]>>
  /\ \E i \in 1..Len(perDiseaseList(Get(models, "Llama"), "q1_anatomical_robustness")) :
       LET d == perDiseaseList(Get(models, "Llama"), "q1_anatomical_robustness")[i]
       IN /\ boardNormalizeDiseaseKey(diseaseNameOf(d, Q1NameFields))
               \in boardOptionKeySet(optionsByTab["q1"][currentOptionIndex(optionsByTab["q1"],
                                                                             currentOptionKey)])
          /\ Field(d, "f1_score") = NA

-----------------------------------------------------------------------------
(* Specification of the participant classifier: a name, a physician flag and *)
(* a type label are classified against a standards document.                *)

\* models, the two physicians of the page under both of their names, and the
\* physician group average
ClassifyNames ==
  {"GPT", "Llama", "MedLlama", "Qwen", "Dr. A", "Dr. B", "yisheng_a", "yisheng_b",
   "Doctors (Avg)"}

\* type labels: absent, empty, junior and other labels, padded and not
TypeLabels ==
  {Undef, Null, Num(0), Str(""), Str("Junior Endoscopists"), Str(" gaonianzi "),
   Str("dinianzi"), Str("chuji yishi"), Str("Residency Trainee"), Str("AI moxing")}

\* category-to-model-list mappings: absent, the three categories in two
\* orders with GPT in two lists, lists that are no arrays, a fourth category,
\* and mappings that are no objects
ModelCategories ==
  {Undef, Null, Str("closed"),
   Map(<< <<"closed", Arr(<<Str("GPT")>>)>>,
          <<"medical_opensource", Arr(<<Str("MedLlama"), Str("GPT")>>)>>,
          <<"opensource", Arr(<<Str("Llama")>>)>> >>),
   Map(<< <<"medical_opensource", Arr(<<Str("MedLlama"), Str("GPT")>>)>>,
          <<"closed", Arr(<<Str("GPT")>>)>>,
          <<"opensource", Arr(<<Str("Llama")>>)>> >>),
   Map(<< <<"closed", Str("GPT")>>,
          <<"medical_opensource", Null>>,
          <<"opensource", Map(<< <<"GPT", Num(1)>> >>)>> >>),
   Map(<< <<"closed", Arr(<<Str("GPT")>>)>>,
          <<"vision_language", Arr(<<Str("Qwen")>>)>> >>),
   Arr(<<Arr(<<Str("Llama")>>)>>)}

ClassifyStandards ==
  {Undef, Null, EmptyObj}
    \cup {Obj([physician_names_en |-> Field(PageStandards, "physician_names_en"),
               physician_en_to_cn |-> Field(PageStandards, "physician_en_to_cn"),
               model_categories |-> mc]) : mc \in ModelCategories}

ClassifyInit ==
  /\ pc = "classify"
  /\ thrown = FALSE
  /\ NormIdle
  /\ ExtractIdle
  /\ options = <<>>
  /\ TableIdle
  /\ DetailIdle
  /\ BoardIdle
  /\ LikertIdle
  /\ RenderIdle
  /\ LateIdle
  /\ standards \in ClassifyStandards
  /\ subject \in [name : ClassifyNames, isDoctor : BOOLEAN, type : TypeLabels]
  /\ physician = Undef
  /\ category = Undef

\* const isPhysician = buildPhysicianChecker(standards); isPhysician(name)
CheckPhysician ==
  /\ pc = "classify"
  /\ physician' = Bool(isPhysician(standards, subject.name))
  /\ pc' = "checked"
  /\ UNCHANGED <<thrown, normVars, extractVars, optionVars, tableVars, detailVars,
                 boardVars, likertVars, renderVars, lateVars, subject, category>>

\* getParticipantCategory(name, isDoctor, type, standards)
Classify ==
  /\ pc = "checked"
  /\ category' = Str(getParticipantCategory(subject.name, subject.isDoctor,
                                            subject.type, standards))
  /\ pc' = "classified"
  /\ UNCHANGED <<thrown, normVars, extractVars, optionVars, tableVars, detailVars,
                 boardVars, likertVars, renderVars, lateVars, subject, physician>>

ClassifyNext == CheckPhysician \/ Classify

SpecClassify == ClassifyInit /\ [][ClassifyNext]_vars

\* the names that are a key or a value of the table
TableKeys(std, table) == Range(Keys(Field(std, table)))
TableValues(std, table) ==
  {v.v : v \in {w \in Range(Values(Field(std, table))) : w.t = "str"}}

\* C13 as stated: the physician test is true exactly for the names that are a
\* key or a value of physician_names_en or of physician_en_to_cn.
C13_KeyOrValueOfEitherTable ==
  pc \in {"checked", "classified"} =>
    (physician = Bool(TRUE) <=>
       \E table \in {"physician_names_en", "physician_en_to_cn"} :
         subject.name \in TableKeys(standards, table) \cup TableValues(standards, table))

\* C13 as the code has it: the physician test is true exactly for the names
\* that are a value of physician_names_en or a key of physician_en_to_cn.
C13_ValueOfFirstOrKeyOfSecond ==
  pc \in {"checked", "classified"} =>
    (physician = Bool(TRUE) <=>
       subject.name \in TableValues(standards, "physician_names_en")
                          \cup TableKeys(standards, "physician_en_to_cn"))

\* a key of physician_names_en was tested and is no physician, and so was a
\* value of it, which is one
C13_Witness ==
  /\ pc = "checked"
  /\ subject.name = "yisheng_a"
  /\ "yisheng_a" \in TableKeys(standards, "physician_names_en")
  /\ "Dr. A" \in TableValues(standards, "physician_names_en")
  /\ physician = Bool(FALSE)
  /\ isPhysician(standards, "Dr. A")

FiveCategories ==
  {"closed", "medical-opensource", "opensource", "junior-endoscopist", "residency-trainee"}

\* the keys of the categories the standards document names, and the
\* categories as the classifier returns them
CategoryKeys(std) ==
  {es[1] : es \in Range(ObjectEntries(Or(Field(std, "model_categories"), EmptyMap)))}
NamedCategories(std) == {replaceUnderscores(k) : k \in CategoryKeys(std)}

C15_FirstListingOrDefault ==
  (pc = "classified" /\ ~subject.isDoctor) =>
    /\ thrown = FALSE
    /\ \A es \in {ObjectEntries(Or(Field(standards, "model_categories"), EmptyMap))} :
         \/ \E i \in 1..Len(es) :
              /\ listsName(es[i][2], subject.name)
              /\ \A j \in 1..(i - 1) : ~listsName(es[j][2], subject.name)
              /\ category = Str(replaceUnderscores(es[i][1]))
         \/ /\ \A i \in 1..Len(es) : ~listsName(es[i][2], subject.name)
            /\ category = Str("opensource")

\* GPT is in the second list and in the first one of a mapping whose first
\* category is medical_opensource, and was classified
C15_Witness ==
  /\ pc = "classified"
  /\ ~subject.isDoctor
  /\ subject.name = "GPT"
  /\ Keys(Field(standards, "model_categories")) = <<"medical_opensource", "closed", "opensource">>
  /\ \A i \in {1, 2} : listsName(Values(Field(standards, "model_categories"))[i], "GPT")
  /\ category = Str("medical-opensource")

-----------------------------------------------------------------------------
(* C16: the participants of the ranked table *)

\* the names the blocks of task q in the Likert part of the document hold
LikertBlockNames(doc, q) ==
  UNION {Range(Keys(Or(Field(b[2], "basic_statistics"), EmptyMap))) :
           b \in {c \in Range(Entries(Or(Field(doc, "q4_q5_likert"), EmptyMap))) :
                    normalizeLikertType(c[1]) = q}}

\* the names the block of Q1 and Q3 and the block of Q2 hold
MacroNames(doc) ==
  Range(Keys(Or(Field(Or(Field(doc, "q1_q3_multiple_choice"), EmptyObj), "macro_avg_f1"), EmptyMap)))
SpatialNames(doc) ==
  Range(Keys(Or(Field(Or(Field(doc, "q2_spatial_localization"), EmptyObj), "participants"), EmptyMap)))

\* C16: before the visibility rule there is a row for exactly the names that
\* occur in a block of Q1, Q2, Q3, Q4 or Q5, no two rows have one name, and a
\* row holds null for every task whose block does not name the participant.
C16_RowForEveryNamedParticipant ==
  pc = "table" =>
    \A rs \in {mappedRows(hvmData, standards)} :
      /\ Range(RowNames(rs))
           = MacroNames(hvmData) \cup SpatialNames(hvmData)
               \cup LikertBlockNames(hvmData, "q4") \cup LikertBlockNames(hvmData, "q5")
      /\ \A i, j \in 1..Len(rs) : rs[i].name = rs[j].name => i = j
      /\ \A i \in 1..Len(rs) :
           /\ rs[i].name \notin MacroNames(hvmData) => rs[i].q1 = Null /\ rs[i].q3 = Null
           /\ rs[i].name \notin SpatialNames(hvmData) => rs[i].q2 = Null
           /\ rs[i].name \notin LikertBlockNames(hvmData, "q4") => rs[i].q4 = Null
           /\ rs[i].name \notin LikertBlockNames(hvmData, "q5") => rs[i].q5 = Null

-----------------------------------------------------------------------------
(* Specification of the Likert adapter: collectLikert of adaptHumanVsModel   *)
(* turns the raw block of a Likert task into the statistics of each          *)
(* participant, and computeLikertScores derives the aggregates of the ranked *)
(* table from them. Scores are whole hundredths, orders are whole numbers.   *)

\* the records collectLikert visits, in order: one for each participant with
\* a name of each disease, with the numeric means and stds of its dimensions
\* and the <<bucket key, mean>> pairs pushed
likertRecords(rawBlock) ==
  LET numbers(dims, f) ==
        Eval([i \in 1..Len(dims) |-> safeNumber(Field(dims[i], f))], LAMBDA ns :
          SelectIndexes([i \in 1..Len(ns) |-> ns[i].v], {i \in 1..Len(ns) : ns[i] # Null}))
      pushed(dims) ==
        Eval([i \in 1..Len(dims) |->
               <<"dimension" \o toString(Or(Field(dims[i], "order"), Num(1))),
                 safeNumber(Field(dims[i], "mean"))>>], LAMBDA ps :
          SelectIndexes(ps, {i \in 1..Len(ps) : ps[i][2] # Null}))
      record(diseaseName, p) ==
        Eval(Values(Or(Field(p, "dimensions"), EmptyMap)), LAMBDA dims :
          [disease |-> diseaseName,
           name |-> Field(p, "name"),
           meanVal |-> mean(numbers(dims, "mean")),
           stdVal |-> mean(numbers(dims, "std")),
           dim |-> pushed(dims)])
      ofDisease(disease) ==
        Eval(<<Or(Field(disease, "disease_cn"),
                  Or(Field(disease, "disease_en"), Field(disease, "disease"))),
               Elements(Or(Field(disease, "participants"), Arr(<<>>)))>>, LAMBDA d :
          Eval([i \in 1..Len(d[2]) |-> record(d[1], d[2][i])], LAMBDA rs :
            SelectIndexes(rs, {i \in 1..Len(rs) : Truthy(rs[i].name)})))
  IN Eval(Elements(Or(Field(rawBlock, "diseases"), Arr(<<>>))), LAMBDA diseases :
       Concat([i \in 1..Len(diseases) |-> ofDisease(diseases[i])]))

DimensionKeys == <<"dimension1", "dimension2", "dimension3", "dimension4", "dimension5">>

\* the numbers of a list of nullable numbers
NumbersOf(s) ==
  Eval(s, LAMBDA a :
    SelectIndexes([i \in 1..Len(a) |-> a[i].v], {i \in 1..Len(a) : a[i] # Null}))

\* bucket.totalMean: the mean of each record of the participant that has one
totalMean(own) == Eval(own, LAMBDA rs : NumbersOf([i \in 1..Len(rs) |-> rs[i].meanVal]))

\* the statistics collectLikert returns: stats[name] for each name of agg
collectLikert(rawBlock) ==
  LET bucketDim(own, k) ==
        mean(Concat([i \in 1..Len(own) |->
          Eval(own[i].dim, LAMBDA ps :
            SelectIndexes([j \in 1..Len(ps) |-> ps[j][2].v],
                          {j \in 1..Len(ps) : ps[j][1] = k}))]))
      dimensions(own) ==
        Eval([k \in 1..Len(DimensionKeys) |-> <<DimensionKeys[k], bucketDim(own, DimensionKeys[k])>>],
             LAMBDA ds : Map(SelectIndexes(ds, {k \in 1..Len(ds) : ds[k][2] # Null})))
      stat(own) ==
        Obj([total_score |->
               Obj([mean |-> mean(totalMean(own)),
                    std |-> mean(NumbersOf([i \in 1..Len(own) |-> own[i].stdVal]))]),
             dimensions |-> dimensions(own)])
  IN Eval(likertRecords(rawBlock), LAMBDA recs :
       Eval(Distinct([i \in 1..Len(recs) |-> recs[i].name.v]), LAMBDA names :
         Map([n \in 1..Len(names) |->
               <<names[n],
                 stat(SelectIndexes(recs, {i \in 1..Len(recs) : recs[i].name.v = names[n]}))>>])))

\* diseaseMap after collectLikert: for each disease name the {mean, std} of
\* the last record of each participant that has a mean
collectLikertDiseases(rawBlock) ==
  LET entryOf(recs, d, n) ==
        Eval(recs[CHOOSE i \in 1..Len(recs) :
                    /\ recs[i].disease = d /\ recs[i].name.v = n
                    /\ \A j \in (i + 1)..Len(recs) :
                         ~(recs[j].disease = d /\ recs[j].name.v = n)], LAMBDA r :
          Obj([mean |-> r.meanVal, std |-> r.stdVal]))
      namesOf(recs, d) ==
        Distinct(Eval(SelectIndexes(recs, {i \in 1..Len(recs) : recs[i].disease = d}),
                      LAMBDA rs : [i \in 1..Len(rs) |-> rs[i].name.v]))
  IN Eval(likertRecords(rawBlock), LAMBDA all :
       Eval(SelectIndexes(all, {i \in 1..Len(all) :
                                  Truthy(all[i].disease) /\ all[i].meanVal # Null}), LAMBDA recs :
         Eval(Distinct([i \in 1..Len(recs) |-> recs[i].disease]), LAMBDA ds :
           Map([k \in 1..Len(ds) |->
                 <<ds[k].v,
                   Eval(namesOf(recs, ds[k]), LAMBDA ns :
                     Map([n \in 1..Len(ns) |-> <<ns[n], entryOf(recs, ds[k], ns[n])>>]))>>]))))

\* the dimensions of a Likert record and their orders
DimensionLabels == <<"accuracy", "completeness">>

\* the mean and std a dimension can hold: scores in hundredths, a missing std
\* and a mean that is no number
DimensionValues == <<[mean |-> Num(400), std |-> Num(100)], [mean |-> Num(200), std |-> Null],
                     [mean |-> NA, std |-> Num(60)]>>

\* the dimensions of one record: each label absent (0) or with one of the
\* values
DimensionMaps ==
  {Map(SelectIndexes([k \in 1..Len(DimensionLabels) |->
                        <<DimensionLabels[k],
                          IF f[k] = 0 THEN Undef
                          ELSE Obj([mean |-> DimensionValues[f[k]].mean,
                                    std |-> DimensionValues[f[k]].std,
                                    order |-> Num(k)])>>],
                     {k \in 1..Len(DimensionLabels) : f[k] # 0})) :
     f \in [1..Len(DimensionLabels) -> 0..Len(DimensionValues)]}

\* the raw block: GPT rated for two diseases, Llama for the first one
RawLikertBlocks ==
  {Obj([diseases |->
          Arr(<<Obj([disease_cn |-> Str("xirou"),
                     participants |->
                       Arr(<<Obj([name |-> Str("GPT"), dimensions |-> d1]),
                             Obj([name |-> Str("Llama"),
                                  dimensions |->
                                    Map(<< <<"accuracy",
                                             Obj([mean |-> Num(300), std |-> Num(50),
                                                  order |-> Num(1)])>> >>)])>>)]),
                Obj([disease_en |-> Str("Ulcer"),
                     participants |->
                       Arr(<<Obj([name |-> Str("GPT"), dimensions |-> d2])>>)])>>)]) :
     d1, d2 \in DimensionMaps}

LikertInit ==
  /\ pc = "adapt"
  /\ thrown = FALSE
  /\ NormIdle
  /\ ExtractIdle
  /\ OptionIdle
  /\ TableIdle
  /\ DetailIdle
  /\ BoardIdle
  /\ ClassifyIdle
  /\ RenderIdle
  /\ LateIdle
  /\ rawLikert \in RawLikertBlocks
  /\ likertStats = Undef
  /\ likertAggregates = Undef

\* const q4Stats = collectLikert(raw.q4_findings_likert || {}, q4DiseaseScores)
CollectLikert ==
  /\ pc = "adapt"
  /\ likertStats' = Obj([basic_statistics |-> collectLikert(rawLikert),
                         per_disease |-> collectLikertDiseases(rawLikert)])
  /\ pc' = "collected"
  /\ UNCHANGED <<thrown, normVars, extractVars, optionVars, tableVars, detailVars,
                 boardVars, classifyVars, renderVars, lateVars, rawLikert, likertAggregates>>

\* computeLikertScores(hvmData.q4_q5_likert).q4Aggregates for the adapted
\* document, whose q4_q5_likert.q4.basic_statistics is q4Stats
ScoreLikert ==
  /\ pc = "collected"
  /\ likertAggregates' = computeLikertScores(Map(<< <<"q4", likertStats>> >>), "q4")
  /\ pc' = "scored"
  /\ UNCHANGED <<thrown, normVars, extractVars, optionVars, tableVars, detailVars,
                 boardVars, classifyVars, renderVars, lateVars, rawLikert, likertStats>>

LikertNext == CollectLikert \/ ScoreLikert

SpecLikert == LikertInit /\ [][LikertNext]_vars

\* the numbers held as f (mean or std) by the dimension with the label given
\* in the records of participant n of the raw block
OwnDimensionValues(raw, n, label, f) ==
  LET ofDisease(d) ==
        Eval(Field(d, "participants").v, LAMBDA ps :
          [j \in 1..Len(ps) |->
             IF Field(ps[j], "name") = Str(n)
               THEN safeNumber(Field(Get(Field(ps[j], "dimensions"), label), f))
               ELSE Null])
  IN Eval(Field(raw, "diseases").v, LAMBDA ds :
       NumbersOf(Concat([i \in 1..Len(ds) |-> ofDisease(ds[i])])))

\* the participant's own per-dimension means of f, for the dimensions present
OwnDimensionMeans(raw, n, f) ==
  NumbersOf([k \in 1..Len(DimensionLabels) |->
               mean(OwnDimensionValues(raw, n, DimensionLabels[k], f))])

\* C17: the total Likert score of a participant is the unweighted mean of the
\* participant's own per-dimension means over the dimensions present, its
\* std is the mean of the per-dimension stds, null when there is none, and
\* the aggregate of the ranked table is that total score.
C17_TotalIsMeanOfDimensionMeans ==
  pc = "scored" =>
    \A n \in {"GPT", "Llama"} :
      \A total \in {Field(Get(Field(likertStats, "basic_statistics"), n), "total_score")} :
        /\ Field(total, "mean") = mean(OwnDimensionMeans(rawLikert, n, "mean"))
        /\ Field(total, "std") = mean(OwnDimensionMeans(rawLikert, n, "std"))
        /\ Field(total, "mean") # Null
             => Field(Get(likertAggregates, n), "mean") = Field(total, "mean")

-----------------------------------------------------------------------------
(* C18: the column maxima and the highlights of the ranked table *)

\* the scores of column k in the rows
ColumnScores(rs, k) == {rs[i][k].v : i \in {j \in 1..Len(rs) : rs[j][k] # Null}}

\* C18: in a table drawn the maximum of each task column is the greatest
\* score of the column, null when no row has a score there; a row is marked
\* in a column exactly when its score is that maximum, whichever row it is,
\* and a row without a score is never marked.
C18_MaxOfColumnAndAllTiesMarked ==
  (pc = "table" /\ Len(rows) > 0) =>
    \A k \in SortKeys :
      /\ ColumnScores(rows, k) = {} => columnMax[k] = Null
      /\ ColumnScores(rows, k) # {} =>
           /\ columnMax[k].t = "num"
           /\ columnMax[k].v \in ColumnScores(rows, k)
           /\ \A x \in ColumnScores(rows, k) : x <= columnMax[k].v
      /\ Len(highlighted) = Len(rows)
      /\ \A i \in 1..Len(rows) :
           /\ k \in highlighted[i] <=> (rows[i][k] # Null /\ rows[i][k] = columnMax[k])
           /\ rows[i][k] = Null => k \notin highlighted[i]

\* two rows tie at the maximum of the column sorted by and both are marked,
\* a third row has no score there and is not marked
C18_Witness ==
  /\ pc = "table"
  /\ sortBy = "q2"
  /\ Len(rows) = 3
  /\ rows[1].q2 = Num(80) /\ rows[2].q2 = Num(80) /\ rows[3].q2 = Null
  /\ columnMax["q2"] = Num(80)
  /\ "q2" \in highlighted[1] /\ "q2" \in highlighted[2] /\ "q2" \notin highlighted[3]

-----------------------------------------------------------------------------
(* Specification of computeParticipantRows as a function: it is applied to a *)
(* results document, a standards document and a sort key, missing ones       *)
(* included.                                                                 *)

\* documents none of whose blocks holds a participant
EmptyDocuments ==
  {Undef, Null, EmptyObj,
   Obj([q1_q3_multiple_choice |-> Null]),
   ResultsDocument(EmptyMap, EmptyMap, EmptyMap),
   Obj([q1_q3_multiple_choice |-> Obj([macro_avg_f1 |-> Null]),
        q2_spatial_localization |-> Obj([participants |-> Null]),
        q4_q5_likert |-> Null]),
   ResultsDocument(Undef, Undef,
                   Map(<< <<"q4", Obj([basic_statistics |-> EmptyMap])>>, <<"q5", Null>> >>))}

\* documents with participants
FilledDocuments ==
  {TaskDocument("q1", BaseScores), EntryDocument(Num(80)), LikertOnlyDocument}

RowsStandards == {Undef, Null, EmptyObj, PageStandards}

\* the sort keys given: the five tasks, none, and a key that is no task
GivenSortKeys == SortKeys \cup {"", "name"}

RowsInit ==
  /\ pc = "rows"
  /\ thrown = FALSE
  /\ NormIdle
  /\ ExtractIdle
  /\ options = <<>>
  /\ DetailIdle
  /\ RestIdle
  /\ lang = "zh"
  /\ selectedName = Null
  /\ hvmData \in EmptyDocuments \cup FilledDocuments
  /\ standards \in RowsStandards
  /\ sortBy \in GivenSortKeys
  /\ rows = <<>>

\* a mutation: the block is read without the default
blockOrDefault_noDefault(doc, k) == Field(doc, k)

\* hvmData?.q1_q3_multiple_choice || {} and hvmData?.q2_spatial_localization || {}
blockOrDefault(doc, k) == Or(Field(doc, k), EmptyObj)

\* mcBlock.macro_avg_f1 and spatialBlock.participants are read without ?.:
\* the read raises when the block is null or undefined
blockReadThrows(doc) ==
  \E k \in {"q1_q3_multiple_choice", "q2_spatial_localization"} :
    IsNullish(blockOrDefault(doc, k))

\* computeParticipantRows(hvmData, standards, sortBy)
ComputeRows ==
  /\ pc = "rows"
  /\ thrown' = blockReadThrows(hvmData)
  /\ rows' = IF thrown' THEN rows ELSE computeParticipantRows(hvmData, standards, sortBy)
  /\ pc' = "computed"
  /\ UNCHANGED <<normVars, extractVars, optionVars, detailVars, restVars,
                 hvmData, lang, sortBy, selectedName>>

RowsNext == ComputeRows

SpecRows == RowsInit /\ [][RowsNext]_vars

\* C19: computeParticipantRows returns, and returns the empty list when no
\* block of the results document holds a participant, also for a results
\* document or a standards document that is null, undefined or {}.
C19_EmptyRowsForEmptyInput ==
  pc = "computed" =>
    /\ thrown = FALSE
    /\ (MacroNames(hvmData) \cup SpatialNames(hvmData)
          \cup LikertBlockNames(hvmData, "q4") \cup LikertBlockNames(hvmData, "q5") = {})
         => rows = <<>>
    /\ hvmData \in {Undef, Null, EmptyObj} => rows = <<>>

\* the rows of a null document were computed with null standards
C19_Witness ==
  /\ pc = "computed"
  /\ hvmData = Null
  /\ standards = Null
  /\ rows = <<>>

-----------------------------------------------------------------------------
(* C20: the chart items of the Likert tabs *)

\* the per-disease score table found for the option shown, null for none
LikertTable == findScoresByDisease(diseaseMapping(hvmData, currentTab), ChartOption)

\* the <<name, score>> pairs of the numeric entries of a score table
TableScores(scores) ==
  {p \in {<<e[1], safeNumber(Coalesce(Field(e[2], "mean"), e[2]))>> :
            e \in Range(Entries(scores))} : p[2] # Null}

\* the <<name, mean>> pairs of the overall aggregates of the tab shown
AggregateScores ==
  {<<e[1], Field(e[2], "mean")>> :
     e \in Range(Entries(computeLikertScores(Or(Field(hvmData, "q4_q5_likert"), EmptyMap),
                                             currentTab)))}

\* the <<name, value>> pairs of the chart items
ChartScores == {<<chartItems[i].name, chartItems[i].value>> : i \in 1..Len(chartItems)}

\* C20 as stated: on a Likert tab the chart items are entries of the
\* per-disease score table found for the option; without such a table they
\* are the overall aggregates, one item for every participant with an
\* aggregate mean, whatever the option is.
C20_TableOrAllAggregates ==
  (pc = "detail" /\ currentTab \in {"q4", "q5"} /\ ~noOption) =>
    \A scores \in {LikertTable} :
      IF Truthy(scores)
        THEN ChartScores \subseteq TableScores(scores)
        ELSE /\ ChartScores = AggregateScores
             /\ Len(chartItems) = Cardinality(AggregateScores)

\* C20 as the code has it: the chart items are the numeric entries of the
\* per-disease score table found for the option, and without such a table
\* the overall aggregates, whatever the option is; in both cases without the
\* entries of group averages, one item for each of the others.
C20_TableOrAggregatesWithoutAverages ==
  (pc = "detail" /\ currentTab \in {"q4", "q5"} /\ ~noOption) =>
    \A scores \in {LikertTable} :
      /\ ChartScores
           = {p \in (IF Truthy(scores) THEN TableScores(scores) ELSE AggregateScores) :
                ~endsWith(p[1], "(Avg)")}
      /\ Len(chartItems) = Cardinality(ChartScores)

\* the Likert tab q4 shows an option without a score table: the chart holds
\* the aggregates of Dr. A, GPT and Llama, the group average has an aggregate
\* too, and another option of the tab has a score table
C20_Witness ==
  /\ pc = "detail"
  /\ currentTab = "q4"
  /\ ~noOption
  /\ ~Truthy(LikertTable)
  /\ ChartNames = <<"Dr. A", "GPT", "Llama">>
  /\ <<"Doctors (Avg)", Num(70)>> \in AggregateScores
  /\ \E i \in 1..Len(options) :
       Truthy(findScoresByDisease(diseaseMapping(hvmData, currentTab), options[i]))

-----------------------------------------------------------------------------
(* C21: the options derived from the results document *)

\* the disease labels of the per-disease data of a task
TaskLabels(doc, task) ==
  IF task = "q2"
    THEN UNION {Range(Keys(Or(Field(Field(p, "metrics"), "by_disease"), EmptyMap))) :
                  p \in Range(Values(Or(Field(Field(doc, "q2_spatial_localization"),
                                               "participants"), EmptyMap)))}
    ELSE Range(Keys(Or(diseaseMapping(doc, task), EmptyMap)))

\* the normalized labels of the tasks given, the empty one aside
NormalizedLabels(doc, tasks) ==
  {normalizeDiseaseKey(Str(l)) : l \in UNION {TaskLabels(doc, task) : task \in tasks}} \ {""}

\* the standards document names no disease
LacksTaxonomy(std) == Len(buildDiseaseOptionsFromStandards(std)) = 0

\* C21: without a taxonomy the options are one for each distinct normalized
\* disease label of the per-disease data of the tasks q1 to q5, no two with
\* one key; with a taxonomy the options are the ones of the taxonomy.
C21_OneOptionPerLabelOfAnyTask ==
  pc = "detail" =>
    /\ LacksTaxonomy(standards) =>
         /\ {options[i].key : i \in 1..Len(options)} = NormalizedLabels(hvmData, SortKeys)
         /\ \A i, j \in 1..Len(options) : options[i].key = options[j].key => i = j
    /\ ~LacksTaxonomy(standards) => options = buildDiseaseOptionsFromStandards(standards)

-----------------------------------------------------------------------------
\* Page load (app.js): the DOMContentLoaded handler and loadData.

ResultsUrl == "gibench_leaderboard.json"
StandardsUrl == "assets/data/gibench_standards.json"

\* the texts t("load.waiting"), t("load.loading"), t("load.success"), t("load.error")
StatusWaiting == "load.waiting"
StatusLoading == "load.loading"
StatusSuccess == "load.success"
StatusError == "load.error"

responseOk_always(status) == TRUE

\* resp.ok: the status is in the range 200-299
responseOk(status) == status \in 200..299

\* { ...a, ...b }: the properties of a, overridden by those of b
spread(a, b) ==
  LET props(x) == IF x.t = "obj" THEN DOMAIN x.v ELSE {}
  IN Obj([k \in props(a) \cup props(b) |-> IF k \in props(b) THEN b.v[k] ELSE a.v[k]])

\* (x || []).forEach(...) throws when x is truthy and has no forEach
forEachThrows(x) == Truthy(x) /\ x.t # "arr"

\* updateHeroStats(standards) throws on a model category whose list is not an array
updateHeroStatsThrows(std) ==
  LET lists == Values(Or(Field(std, "model_categories"), EmptyObj))
  IN \E i \in 1..Len(lists) : forEachThrows(lists[i])

\* adaptHumanVsModel(raw, standards) throws on a per_disease or diseases value
\* that is not an array
adaptHumanVsModelThrows(raw) ==
  LET infos == Values(Or(Field(Field(raw, "q1_anatomical_robustness"), "models"), EmptyObj))
  IN \/ \E i \in 1..Len(infos) : forEachThrows(Field(infos[i], "per_disease"))
     \/ forEachThrows(Field(Or(Field(raw, "q4_findings_likert"), EmptyObj), "diseases"))

\* the answers of the server: the fetch rejects, or resolves to a response
\* with a status and a body that is valid JSON (data) or not
Rejection == [rejects |-> TRUE, status |-> 0, valid |-> FALSE, data |-> Undef]
Response(status, data) == [rejects |-> FALSE, status |-> status, valid |-> TRUE, data |-> data]
Unparsable(status) == [rejects |-> FALSE, status |-> status, valid |-> FALSE, data |-> Undef]

Statuses == {200, 299, 300, 404}

CategoryLists == Map(<< <<"closed", Arr(<<Str("GPT")>>)>> >>)
Overview == Obj([image_question_count |-> Num(3)])
FullStandards == Obj([dataset_overview |-> Overview, model_categories |-> CategoryLists])
PartialStandards == Obj([model_categories |-> CategoryLists])
BrokenStandards ==
  Obj([dataset_overview |-> Overview,
       model_categories |-> Map(<< <<"closed", Str("GPT")>> >>)])
FileStandards ==
  Obj([dataset_overview |-> Overview,
       model_categories |-> Map(<< <<"opensource", Arr(<<Str("Llama")>>)>> >>),
       disease_categories |-> Map(<< <<"Stomach", EmptyMap>> >>)])

RawResults ==
  Obj([q1_anatomical_robustness |->
         Obj([models |-> Map(<< <<"GPT", Obj([per_disease |-> Arr(<<>>)])>> >>)])])
BrokenRawResults ==
  Obj([q1_anatomical_robustness |->
         Obj([models |-> Map(<< <<"GPT", Obj([per_disease |-> Str("x")])>> >>)])])

ResultsDocuments ==
  {Null, EmptyObj,
   Obj([standards |-> FullStandards, human_vs_model |-> RawResults]),
   Obj([standards |-> PartialStandards, human_vs_model |-> RawResults]),
   Obj([standards |-> BrokenStandards, human_vs_model |-> RawResults]),
   Obj([standards |-> FullStandards, human_vs_model |-> BrokenRawResults])}

StandardsDocuments == {Null, FileStandards, BrokenStandards}

ResultsAnswers ==
  {Rejection} \cup {Unparsable(st) : st \in Statuses}
    \cup {Response(st, d) : st \in Statuses, d \in ResultsDocuments}

StandardsAnswers ==
  {Rejection} \cup {Unparsable(st) : st \in {200, 404}}
    \cup {Response(st, d) : st \in {200, 404}, d \in StandardsDocuments}

LoadInit ==
  /\ pc = "page"
  /\ thrown = FALSE
  /\ server \in [results : ResultsAnswers, standards : StandardsAnswers]
  /\ requested = <<>>
  /\ statusLog = <<>>
  /\ pending = Undef
  /\ installed = Undef
  /\ viewInitialized = FALSE
  /\ NormIdle /\ ExtractIdle /\ OptionIdle /\ TableIdle /\ DetailIdle
  /\ BoardIdle /\ ClassifyIdle /\ LikertIdle /\ RenderIdle /\ AdaptIdle /\ I18nIdle

loadOthers ==
  <<normVars, extractVars, optionVars, tableVars, detailVars,
    boardVars, classifyVars, likertVars, renderVars, adaptVars, i18nVars, server, thrown>>

\* DOMContentLoaded: the status shows "waiting", loadData() shows "loading"
\* and requests the results document
PageLoaded ==
  /\ pc = "page"
  /\ statusLog' = <<StatusWaiting, StatusLoading>>
  /\ requested' = <<ResultsUrl>>
  /\ pc' = "fetching"
  /\ UNCHANGED <<pending, installed, viewInitialized, loadOthers>>

\* the catch block of loadData: the status shows the error text
failLoad ==
  /\ statusLog' = Append(statusLog, StatusError)
  /\ pc' = "done"
  /\ pending' = Undef

\* the rest of loadData once the standards are settled: status "success",
\* setStandards, updateHeroStats, adaptHumanVsModel, initHumanVsModel; an
\* exception of the last three reaches the catch block
finishLoad(data, std) ==
  /\ installed' = std
  /\ pending' = Undef
  /\ pc' = "done"
  /\ IF updateHeroStatsThrows(std)
        \/ adaptHumanVsModelThrows(Or(Field(data, "human_vs_model"), EmptyObj))
       THEN /\ statusLog' = statusLog \o <<StatusSuccess, StatusError>>
            /\ viewInitialized' = FALSE
       ELSE /\ statusLog' = Append(statusLog, StatusSuccess)
            /\ viewInitialized' = TRUE

\* the results fetch settles: loadData runs up to its next await or to its end
ResultsFetched ==
  /\ pc = "fetching"
  /\ LET a == server.results
         std == Or(Field(a.data, "standards"), EmptyObj)
     IN IF a.rejects \/ ~responseOk(a.status) \/ ~a.valid \/ IsNullish(a.data)
          THEN failLoad /\ UNCHANGED <<requested, installed, viewInitialized>>
          ELSE IF ~Truthy(Field(std, "dataset_overview"))
            THEN /\ requested' = Append(requested, StandardsUrl)
                 /\ pending' = a.data
                 /\ pc' = "fetchingStandards"
                 /\ UNCHANGED <<statusLog, installed, viewInitialized>>
            ELSE finishLoad(a.data, std) /\ UNCHANGED requested
  /\ UNCHANGED loadOthers

\* the fetch of the standards file settles: its document is merged under the
\* embedded standards when the answer is OK; a rejection or an unparsable body
\* is caught and the embedded standards are kept
StandardsFetched ==
  /\ pc = "fetchingStandards"
  /\ LET a == server.standards
         std == Or(Field(pending, "standards"), EmptyObj)
     IN IF ~a.rejects /\ responseOk(a.status) /\ a.valid
          THEN finishLoad(pending, spread(a.data, std))
          ELSE finishLoad(pending, std)
  /\ UNCHANGED <<requested, loadOthers>>

LoadNext == PageLoaded \/ ResultsFetched \/ StandardsFetched

SpecLoad == LoadInit /\ [][LoadNext]_vars

\* the results fetch rejected or answered with a status outside 200-299
ResultsFetchFailed == server.results.rejects \/ server.results.status \notin 200..299

\* C22: when the fetch of the results document rejects or answers with a
\* non-OK status, the status shows "waiting", "loading" and finally the error
\* text, never "success"; no standards are installed, no view is initialized,
\* and the results document is requested once and nothing else is requested.
C22_FailedFetchEndsInError ==
  /\ Len(SelectSeq(requested, LAMBDA u : u = ResultsUrl)) <= 1
  /\ (pc \in {"fetching", "fetchingStandards", "done"} /\ ResultsFetchFailed) =>
       /\ installed.t = "undef"
       /\ ~viewInitialized
       /\ \A i \in 1..Len(statusLog) : statusLog[i] # StatusSuccess
       /\ requested = <<ResultsUrl>>
       /\ pc # "fetchingStandards"
       /\ pc = "done" => statusLog = <<StatusWaiting, StatusLoading, StatusError>>

\* a 404 answer that carries a complete document has ended in the error text
C22_Witness ==
  /\ pc = "done"
  /\ ~server.results.rejects
  /\ server.results.status = 404
  /\ server.results.valid
  /\ Truthy(Field(Field(server.results.data, "standards"), "dataset_overview"))
  /\ statusLog = <<StatusWaiting, StatusLoading, StatusError>>

-----------------------------------------------------------------------------
\* The human-vs-model view as a whole (initHumanVsModel): the ranked table
\* and the detail card over the same two documents.

PageInputs ==
  {<<TaskDocument("q2", <<Num(-200), Num(80), Absent>>), PageStandards>>,
   <<DetailDocument("q1", << <<"xirou", << <<"GPT", Num(80), TRUE>>,
                                         <<"Dr. A", Num(70), TRUE>>,
                                         <<"Doctors (Avg)", Num(75), TRUE>> >> >> >>),
     TaxonomyStandards>>,
   <<DetailDocument("q4", LikertOnlyTable), PageStandards>>,
   <<EmptyObj, PageStandards>>}

PageInit ==
  /\ pc = "page"
  /\ thrown = FALSE
  /\ NormIdle /\ ExtractIdle /\ BoardIdle /\ ClassifyIdle /\ LikertIdle /\ LateIdle
  /\ \E input \in PageInputs : hvmData = input[1] /\ standards = input[2]
  /\ lang = "zh"
  /\ sortBy = "q1"
  /\ rows = refreshedRows(hvmData, standards, sortBy)
  /\ selectedName = IF Len(rows) > 0 THEN Str(rows[1].name) ELSE Null
  /\ columnMax = drawnColumnMax(rows)
  /\ highlighted = drawnHighlights(rows, columnMax)
  /\ options = Eval(buildDiseaseOptionsFromStandards(standards), LAMBDA standardOptions :
                    IF Len(standardOptions) > 0 THEN standardOptions
                    ELSE buildOptionsFromData(hvmData))
  /\ currentTab = "q1"
  /\ currentOptionKey =
       renderOptionsKey(options, IF Len(options) > 0 THEN Or(Str(options[1].key), Null) ELSE Null)
  /\ chartItems = renderChartItems(hvmData, currentTab, options, currentOptionKey, standards)
  /\ noOption = (currentOptionIndex(options, currentOptionKey) = 0)

\* setLanguage: the listener of the table (refresh) and then the listener of
\* the card (renderOptions) run
PageLanguageChange ==
  \E l \in Languages :
    /\ pc = "page"
    /\ l # lang
    /\ lang' = l
    /\ rows' = refreshedRows(hvmData, standards, sortBy)
    /\ selectedName' = refreshSelection(rows', selectedName)
    /\ columnMax' = drawnColumnMax(rows')
    /\ highlighted' = drawnHighlights(rows', columnMax')
    /\ currentOptionKey' = renderOptionsKey(options, currentOptionKey)
    /\ chartItems' = renderChartItems(hvmData, currentTab, options, currentOptionKey', standards)
    /\ noOption' = (currentOptionIndex(options, currentOptionKey') = 0)
    /\ UNCHANGED <<boardVars, classifyVars, likertVars, lateVars, pc, thrown, normVars,
                   extractVars, optionVars, hvmData, sortBy, currentTab>>

PageNext == SortChange \/ RowClick \/ TabClick \/ OptionChange \/ PageLanguageChange

SpecPage == PageInit /\ [][PageNext]_vars

-----------------------------------------------------------------------------
\* the natural range of the scores of task k, in hundredths
NaturalRange(k) == IF k \in {"q4", "q5"} THEN 0..500 ELSE 0..100

\* C24: every score present in a ranked row lies in the natural range of its
\* task: [0,1] for q1, q2 and q3, [0,5] for q4 and q5.
C24_ScoresInNaturalRange ==
  pc = "table" => \A k \in SortKeys : ColumnScores(rows, k) \subseteq NaturalRange(k)

-----------------------------------------------------------------------------
\* every name of the detail documents, the model that is named as an average
\* included
ChartParticipants == DetailNames \cup {"Ensemble (Avg)"}

\* C25: the visibility rule of the breakdowns leaves the models alone: every
\* participant that is no physician and has a number for the option selected
\* has a chart item, whatever its name.
C25_ModelsAlwaysCharted ==
  pc = "detail" /\ ~noOption =>
    \A n \in ChartParticipants :
      \A scores \in {ScoresFor(hvmData, currentTab, ChartOption, n)} :
        ~isPhysician(standards, n) /\ Len(scores) > 0 /\ scores[1] # Null
          => \E i \in 1..Len(chartItems) : chartItems[i].name = n

\* the same for the models whose name does not end in (Avg)
C25_ModelsNotNamedAverageCharted ==
  pc = "detail" /\ ~noOption =>
    \A n \in ChartParticipants :
      \A scores \in {ScoresFor(hvmData, currentTab, ChartOption, n)} :
        ~isPhysician(standards, n) /\ ~endsWith(n, "(Avg)") /\ Len(scores) > 0 /\ scores[1] # Null
          => \E i \in 1..Len(chartItems) : chartItems[i].name = n

-----------------------------------------------------------------------------
\* the option list of the current tab: the one list of the comparison card,
\* optionsByTab[currentTab] of the leaderboard card
CurrentOptions == IF pc = "board" THEN optionsByTab[currentTab] ELSE options

\* C26: in both detail cards, after any tab clicks, option changes and
\* language changes, the current option key is null exactly when the option
\* list of the current tab is empty, and then the placeholder is shown;
\* otherwise it is the key of an option of that list and a current option is
\* found.
C26_KeyNullExactlyWhenNoOptions ==
  pc \in {"detail", "board"} =>
    \A opts \in {CurrentOptions} :
      /\ currentOptionKey = Null <=> Len(opts) = 0
      /\ Len(opts) = 0 => noOption /\ chartItems = <<>>
      /\ Len(opts) > 0 =>
           /\ \E i \in 1..Len(opts) : Str(opts[i].key) = currentOptionKey
           /\ ~noOption
      /\ ~thrown

\* the leaderboard card went from a tab with options to the tab without any
C26_Witness ==
  /\ pc = "board"
  /\ currentTab = "q3"
  /\ Len(optionsByTab["q1"]) > 0
  /\ Len(optionsByTab["q3"]) = 0
  /\ currentOptionKey = Null
  /\ noOption

-----------------------------------------------------------------------------
\* the regions of a model record
RegionsOf(record) ==
  Elements(Or(Field(Field(Field(record, "tasks"), "q3_diagnosis_regional_robustness"),
                    "regions"), Arr(<<>>)))

\* the positions of the regions of a record whose identifier is the one given
RegionsKeyed(record, regionKey) ==
  {i \in 1..Len(RegionsOf(record)) : Field(RegionsOf(record)[i], "region_key") = Str(regionKey)}

\* the f1_score at the position of the ordinal in the per-disease list of the
\* first region of the record with the identifier given; null when there is
\* no such region, the region has no list, or the list no such position
RegionScore(record, regionKey, ordinal) ==
  IF RegionsKeyed(record, regionKey) = {} THEN Null
  ELSE LET list == Field(RegionsOf(record)[Min(RegionsKeyed(record, regionKey))], "per_disease")
       IN IF list.t # "arr" \/ ordinal \notin 1..Len(list.v) THEN Null
          ELSE safeNumber(Field(list.v[ordinal], "f1_score"))

\* the option of the chart of the leaderboard card
BoardOption ==
  optionsByTab[currentTab][currentOptionIndex(optionsByTab[currentTab], currentOptionKey)]

-----------------------------------------------------------------------------
\* The adapter of the diagnosis task (adaptHumanVsModel, app.js): the
\* per-disease scores of the models and of the physicians are filed in
\* diagnosisMap.

\* num(v): v when it is a number, else null
num(v) == Eval(v, LAMBDA a : IF a.t = "num" THEN a ELSE Null)

\* diseasesByRegion: the disease names of the three regions of the taxonomy
diseasesByRegion(std) ==
  LET keysOf(region) == Keys(Or(Field(Field(std, "disease_categories"), region), EmptyMap))
  IN [esophagus |-> keysOf("Esophagus"), stomach |-> keysOf("Stomach"),
      colo |-> keysOf("Colorectum")]

\* diseasesByRegion[region.region_key] || []
diseaseListOf(std, regionKey) ==
  IF regionKey.t = "str" /\ regionKey.v \in {"esophagus", "stomach", "colo"}
    THEN diseasesByRegion(std)[regionKey.v]
    ELSE <<>>

diseaseNameAt_ownNameFirst(diseaseList, i, rec) ==
  Or(Or(Or(Field(rec, "disease_cn"), Field(rec, "disease_type")), Field(rec, "disease_en")),
     IF i <= Len(diseaseList) THEN Str(diseaseList[i]) ELSE Undef)

\* diseaseList[idx] || rec.disease_cn || rec.disease_type || rec.disease_en,
\* for the record at position i (idx = i - 1)
diseaseNameAt(diseaseList, i, rec) ==
  Or(IF i <= Len(diseaseList) THEN Str(diseaseList[i]) ELSE Undef,
     Or(Or(Field(rec, "disease_cn"), Field(rec, "disease_type")), Field(rec, "disease_en")))

\* the calls of setMap(diagnosisMap, ...) for the models, in order, those
\* with a score that is no number left out
modelWrites(q3, std) ==
  LET ofRegion(n, region) ==
        Eval(<<diseaseListOf(std, Field(region, "region_key")),
               Elements(Or(Field(region, "per_disease"), Arr(<<>>)))>>, LAMBDA a :
          SelectIndexes(
            [i \in 1..Len(a[2]) |->
               [disease |-> diseaseNameAt(a[1], i, a[2][i]),
                name |-> n,
                cell |-> Obj([value |-> num(Field(a[2][i], "f1_score")),
                              std |-> num(Coalesce(Field(a[2][i], "f1_std_error"),
                                                   Field(region, "f1_std_error")))])]],
            {i \in 1..Len(a[2]) : num(Field(a[2][i], "f1_score")) # Null}))
      ofModel(n, info) ==
        Eval(Elements(Or(Field(info, "regions"), Arr(<<>>))), LAMBDA regions :
          Concat([r \in 1..Len(regions) |-> ofRegion(n, regions[r])]))
  IN Eval(Entries(Or(Field(q3, "models"), EmptyMap)), LAMBDA es :
       Concat([m \in 1..Len(es) |-> ofModel(es[m][1], es[m][2])]))

\* the calls of setMap(diagnosisMap, ...) for the physicians
physicianWrites(q3) ==
  LET ofPhysician(n, info) ==
        Eval(Entries(Or(Field(info, "per_disease_f1"), EmptyMap)), LAMBDA ds :
          SelectIndexes(
            [i \in 1..Len(ds) |->
               [disease |-> Str(ds[i][1]),
                name |-> n,
                cell |-> Obj([value |-> num(ds[i][2]),
                              std |-> num(Get(Or(Field(info, "per_disease_std_error"), EmptyMap),
                                              ds[i][1]))])]],
            {i \in 1..Len(ds) : num(ds[i][2]) # Null}))
  IN Eval(Entries(Or(Field(q3, "physicians"), EmptyMap)), LAMBDA es :
       Concat([p \in 1..Len(es) |-> ofPhysician(es[p][1], es[p][2])]))

\* the map after the calls of setMap: a call without a disease name is
\* skipped, a later call for the same disease and name replaces the earlier
setMapAll(writes) ==
  Eval(SelectIndexes(writes, {i \in 1..Len(writes) : Truthy(writes[i].disease)}), LAMBDA ws :
    LET last(d, n) ==
          ws[CHOOSE i \in 1..Len(ws) :
               /\ ws[i].disease.v = d /\ ws[i].name = n
               /\ \A j \in (i + 1)..Len(ws) : ~(ws[j].disease.v = d /\ ws[j].name = n)].cell
        namesOf(d) ==
          Distinct(Eval(SelectIndexes(ws, {i \in 1..Len(ws) : ws[i].disease.v = d}),
                        LAMBDA own : [i \in 1..Len(own) |-> own[i].name]))
    IN Eval(Distinct([i \in 1..Len(ws) |-> ws[i].disease.v]), LAMBDA ds :
         Map([k \in 1..Len(ds) |->
               <<ds[k], Eval(namesOf(ds[k]), LAMBDA ns :
                          Map([n \in 1..Len(ns) |-> <<ns[n], last(ds[k], ns[n])>>]))>>])))

\* diagnosisMap of adaptHumanVsModel(raw, standards)
adaptDiagnosisMap(rawDoc, std) ==
  Eval(Field(rawDoc, "q3_diagnosis_regional_robustness"), LAMBDA q3 :
    setMapAll(modelWrites(q3, std) \o physicianWrites(q3)))

\* the per-disease records of a region: <<name field, name, score>>
RegionRecords ==
  {<< <<"disease_cn", "xirou", Num(80)>>, <<"disease_cn", "kuiyang", Num(65)>> >>,
   << <<"disease_en", "Ulcer", Num(70)>> >>,
   << <<"disease_cn", "xirou", NA>>, <<"disease_type", "kuiyang", Num(90)>> >>,
   << <<"disease_cn", "kuiyang", Num(80)>>, <<"disease_cn", "kuiyang", Num(50)>> >>,
   << <<"location_cn", "wei", Num(80)>>, <<"location_cn", "wei", Num(60)>> >>}

RegionKeys == {"stomach", "colo", "rectum"}

\* the taxonomies of the stomach: in the order of the records, in another
\* order, shorter than the lists, and none
StomachTaxonomies ==
  {<< <<"xirou", Str("Polyp")>>, <<"kuiyang", Str("Ulcer")>> >>,
   << <<"kuiyang", Str("Ulcer")>>, <<"xirou", Str("Polyp")>> >>,
   << <<"xirou", Str("Polyp")>> >>,
   <<>>}

AdaptStandards ==
  {Obj([disease_categories |->
          Map(<< <<"Stomach", Map(tx)>>,
                 <<"Colorectum", Map(<< <<"ai", Str("Cancer")>> >>)>> >>)]) :
     tx \in StomachTaxonomies}

rawRegion(k, recs) ==
  Obj([region_key |-> Str(k),
       f1_std_error |-> Num(3),
       per_disease |->
         Arr([i \in 1..Len(recs) |->
                Obj((recs[i][1] :> Str(recs[i][2])) @@ [f1_score |-> recs[i][3]])])])

\* GPT with one region of any key and any records, Llama with or without a
\* stomach region, and one physician
RawDocuments ==
  {Obj([q3_diagnosis_regional_robustness |->
          Obj([models |->
                 Map(<< <<"GPT", Obj([overall |-> Obj([f1_mean |-> Num(75)]),
                                      regions |-> Arr(<<rawRegion(k, recs)>>)])>>,
                        <<"Llama", Obj([regions |-> Arr(other)])>> >>),
               physicians |->
                 Map(<< <<"Dr. A", Obj([per_disease_f1 |-> Map(<< <<"xirou", Num(90)>> >>)])>> >>)])]) :
     k \in RegionKeys, recs \in RegionRecords,
     other \in {<<>>, <<rawRegion("stomach", << <<"disease_cn", "ai", Num(40)>> >>)>>}}

adaptOthers ==
  <<normVars, extractVars, optionVars, tableVars, detailVars, boardVars, classifyVars,
    likertVars, renderVars, loadVars, i18nVars, thrown>>

AdaptInit ==
  /\ pc = "raw"
  /\ thrown = FALSE
  /\ rawData \in RawDocuments
  /\ diagnosisMap = Undef
  /\ standards \in AdaptStandards
  /\ options = <<>>
  /\ NormIdle /\ ExtractIdle /\ TableIdle /\ DetailIdle
  /\ BoardIdle /\ ClassifyIdle /\ LikertIdle /\ RenderIdle /\ LoadIdle /\ I18nIdle

\* adaptHumanVsModel(raw, standards)
AdaptDiagnosis ==
  /\ pc = "raw"
  /\ diagnosisMap' = adaptDiagnosisMap(rawData, standards)
  /\ pc' = "adapted"
  /\ UNCHANGED <<rawData, adaptOthers>>

AdaptNext == AdaptDiagnosis

SpecAdapt == AdaptInit /\ [][AdaptNext]_vars

\* the records of GPT's one region, and the disease names of the taxonomy for
\* that region
GptRegion ==
  Field(Get(Field(Field(rawData, "q3_diagnosis_regional_robustness"), "models"), "GPT"),
        "regions").v[1]
GptRecords == Field(GptRegion, "per_disease").v
GptTaxonomy ==
  LET k == Field(GptRegion, "region_key").v
      region == CASE k = "stomach" -> "Stomach" [] k = "colo" -> "Colorectum" [] OTHER -> "none"
  IN Keys(Or(Field(Field(standards, "disease_categories"), region), EmptyMap))

\* the name of the record, the first of disease_cn, disease_type, disease_en
OwnName(rec) ==
  Or(Or(Field(rec, "disease_cn"), Field(rec, "disease_type")), Field(rec, "disease_en"))

\* the name record i of GPT is attributed to: the i-th disease of the taxonomy
\* of the region, the record's own name when the taxonomy has no i-th disease
AttributedName(i) ==
  IF i <= Len(GptTaxonomy) THEN Str(GptTaxonomy[i]) ELSE OwnName(GptRecords[i])

\* C28: every per-disease record of a model with a numeric score is filed
\* under the disease name at its position in the taxonomy of its region,
\* whatever name it carries, and under its own name only when the taxonomy
\* has no disease at that position; a later record of the same model filed
\* under the same name replaces the earlier one.
C28_FiledUnderTaxonomyNameAtPosition ==
  pc = "adapted" =>
    \A i \in 1..Len(GptRecords) :
      \A d \in {AttributedName(i)} :
        (Field(GptRecords[i], "f1_score").t = "num" /\ d.t = "str"
           /\ \A j \in (i + 1)..Len(GptRecords) :
                ~(Field(GptRecords[j], "f1_score").t = "num" /\ AttributedName(j) = d))
          => Field(Get(Get(diagnosisMap, d.v), "GPT"), "value") = Field(GptRecords[i], "f1_score")

\* the taxonomy lists the two diseases in the other order than the records:
\* the score recorded as xirou is filed under kuiyang
C28_Witness ==
  /\ pc = "adapted"
  /\ Len(GptRecords) = 2
  /\ OwnName(GptRecords[1]) = Str("xirou")
  /\ GptTaxonomy = <<"kuiyang", "xirou">>
  /\ Field(Get(Get(diagnosisMap, "kuiyang"), "GPT"), "value") = Num(80)
  /\ Field(Get(Get(diagnosisMap, "xirou"), "GPT"), "value") = Num(65)

-----------------------------------------------------------------------------
\* The ranked table of the model leaderboard (initLeaderboard, leaderboard.js).

RankingKeys == {"q1", "q2", "q3"}

SummaryFields ==
  [q1 |-> "q1_anatomical_f1_mean", q2 |-> "q2_spatial_miou", q3 |-> "q3_diagnosis_f1_mean"]

\* computeModelRows(models, sortBy)
computeModelRows(mods, by) ==
  LET row(n, record) ==
        Eval(Or(Field(record, "summary"), EmptyObj), LAMBDA summary :
          [name |-> n,
           q1 |-> safeNumber(Field(summary, SummaryFields.q1)),
           q2 |-> safeNumber(Field(summary, SummaryFields.q2)),
           q3 |-> safeNumber(Field(summary, SummaryFields.q3))])
      sortKey == IF by \in RankingKeys THEN by ELSE "q1"
  IN Eval(Entries(Or(mods, EmptyMap)), LAMBDA es :
       Eval([i \in 1..Len(es) |-> row(es[i][1], es[i][2])], LAMBDA rs :
         sorted(rs, [i \in 1..Len(rs) |-> sortRank(rs[i][sortKey])])))

\* the selection after refresh() of the leaderboard
modelSelection(mods, rs, sel) ==
  Eval(<<rs, sel>>, LAMBDA a :
    IF Len(a[1]) = 0 THEN a[2]
    ELSE IF ~Truthy(a[2]) \/ ~Truthy(Get(mods, a[2].v)) THEN Str(a[1][1].name)
    ELSE a[2])

\* three models with any q1 score each, ranked the other way round by q2 and
\* without a q3 score; no model at all
RankingModels ==
  {Map([i \in 1..3 |->
          <<(<<"GPT", "Llama", "Qwen">>)[i],
            Obj([summary |->
                   Obj([q1_anatomical_f1_mean |-> f[i],
                        q2_spatial_miou |-> Num(10 * i)])])>>]) :
     f \in [1..3 -> {Num(80), Num(65), NA}]}
    \cup {Undef, EmptyMap}

\* the values of the sort control of the leaderboard
RankingSortValues == RankingKeys \cup {"", "name"}

rankingOthers ==
  <<pc, thrown, normVars, extractVars, optionVars, detailVars, boardVars, classifyVars,
    likertVars, renderVars, lateVars, hvmData>>

RankingInit ==
  /\ pc = "ranking"
  /\ thrown = FALSE
  /\ NormIdle /\ ExtractIdle /\ OptionIdle /\ DetailIdle /\ LaterIdle
  /\ hvmData = Undef
  /\ models \in RankingModels
  /\ optionsByTab = <<>>
  /\ lang = "zh"
  /\ sortBy = "q1"
  /\ rows = computeModelRows(models, sortBy)
  /\ selectedName = modelSelection(models, rows, IF Len(rows) > 0 THEN Str(rows[1].name) ELSE Null)

\* the change handler of the sort control
RankingSortChange ==
  \E v \in RankingSortValues :
    /\ pc = "ranking"
    /\ sortBy' = IF v = "" THEN "q1" ELSE v
    /\ rows' = computeModelRows(models, sortBy')
    /\ selectedName' = modelSelection(models, rows', selectedName)
    /\ UNCHANGED <<rankingOthers, lang>>

\* the click handler of the table body, for a click on a row
RankingRowClick ==
  \E i \in 1..Len(rows) :
    /\ pc = "ranking"
    /\ rows[i].name # ""
    /\ rows' = computeModelRows(models, sortBy)
    /\ selectedName' = modelSelection(models, rows', Str(rows[i].name))
    /\ UNCHANGED <<rankingOthers, lang, sortBy>>

\* setLanguage and the language listener of the leaderboard
RankingLanguageChange ==
  \E l \in Languages :
    /\ pc = "ranking"
    /\ l # lang
    /\ lang' = l
    /\ rows' = computeModelRows(models, sortBy)
    /\ selectedName' = modelSelection(models, rows', selectedName)
    /\ UNCHANGED <<rankingOthers, sortBy>>

RankingNext == RankingSortChange \/ RankingRowClick \/ RankingLanguageChange

\* the ranked table of the comparison page or the one of the model leaderboard
TablesInit == TableInit \/ RankingInit

TablesNext == TableNext \/ RankingNext

SpecTables == TablesInit /\ [][TablesNext]_vars

\* selections that are no row: none, the empty name, a name no row has
AbsentSelections == {Null, Str(""), Str("Nobody")}

\* C29: in both ranked tables, after any sort-key changes, row clicks and
\* language changes, the selected name is the name of a row of the table
\* whenever the table has rows; a refresh that meets a selection absent from
\* the rows makes the top-ranked row the selection.
C29_SelectionIsARow ==
  pc \in {"table", "ranking"} =>
    /\ Len(rows) > 0 =>
         /\ selectedName.t = "str"
         /\ \E i \in 1..Len(rows) : rows[i].name = selectedName.v
         /\ \A sel \in AbsentSelections :
              IF pc = "table"
                THEN refreshSelection(rows, sel) = Str(rows[1].name)
                ELSE modelSelection(models, rows, sel) = Str(rows[1].name)
    /\ Len(rows) = 0 => selectedName = Null

\* the leaderboard is sorted by another key and a row that is not the top
\* row, selected by a click before, is still the selection
C29_Witness ==
  /\ pc = "ranking"
  /\ sortBy = "q2"
  /\ lang = "en"
  /\ Len(rows) = 3
  /\ selectedName = Str("GPT")
  /\ rows[1].name = "Qwen"

-----------------------------------------------------------------------------
\* The language state of the page (i18n.js): currentLang, the listeners and
\* setLanguage.

MaxListeners == 3

\* what is handed to onLanguageChange: a function that returns, a function
\* that throws, and values that are no function
Callbacks == {"returns", "throws", "undefined", "string"}

isFunction(fn) == fn \in {"returns", "throws"}

\* what is handed to setLanguage
LanguageRequests == {Str("zh"), Str("en"), Str("EN"), Str("fr"), Str(""), Undef, Null}

\* lang === "en" ? "en" : "zh"
nextLanguage(l) == IF l.t = "str" /\ l.v = "en" THEN "en" ELSE "zh"

notified_untilThrow(ls, l) ==
  LET stop == {i \in 1..Len(ls) : ls[i].fn = "throws"}
  IN [i \in 1..(IF stop = {} THEN Len(ls) ELSE Min(stop)) |-> [listener |-> ls[i].id, lang |-> l]]

\* listeners.forEach((fn) => { try { fn(currentLang) } catch ... }): the
\* invocations made, in order; an exception of a listener is caught
notified(ls, l) == [i \in 1..Len(ls) |-> [listener |-> ls[i].id, lang |-> l]]

i18nOthers ==
  <<pc, thrown, normVars, extractVars, optionVars, tableVars, detailVars, boardVars,
    classifyVars, likertVars, renderVars, loadVars, adaptVars>>

I18nInit ==
  /\ pc = "i18n"
  /\ thrown = FALSE
  /\ currentLang = "zh"
  /\ listeners = <<>>
  /\ calls = <<>>
  /\ langRequest = Undef
  /\ NormIdle /\ ExtractIdle /\ OptionIdle /\ TableIdle /\ DetailIdle
  /\ BoardIdle /\ ClassifyIdle /\ LikertIdle /\ RenderIdle /\ LoadIdle /\ AdaptIdle

\* onLanguageChange(fn): a function is appended to the listeners
OnLanguageChange ==
  \E fn \in Callbacks :
    /\ pc = "i18n"
    /\ Len(listeners) < MaxListeners
    /\ listeners' = IF isFunction(fn)
                      THEN Append(listeners, [id |-> Len(listeners) + 1, fn |-> fn])
                      ELSE listeners
    /\ UNCHANGED <<currentLang, calls, langRequest, i18nOthers>>

\* setLanguage(lang)
SetLanguage ==
  \E l \in LanguageRequests :
    /\ pc = "i18n"
    /\ langRequest' = l
    /\ IF nextLanguage(l) = currentLang
         THEN /\ calls' = <<>>
              /\ UNCHANGED currentLang
         ELSE /\ currentLang' = nextLanguage(l)
              /\ calls' = notified(listeners, currentLang')
    /\ UNCHANGED <<listeners, i18nOthers>>

I18nNext == OnLanguageChange \/ SetLanguage

SpecI18n == I18nInit /\ [][I18nNext]_vars

\* the language a request stands for: 'en' for the string en, 'zh' for
\* anything else
RequestedLanguage == IF langRequest' = Str("en") THEN "en" ELSE "zh"

\* C30: the current language is always 'zh' or 'en'; a call of setLanguage
\* makes the requested language current ('zh' for any value other than 'en');
\* when that is the language already current no listener is invoked, and
\* otherwise every registered listener is invoked exactly once, in the order
\* of registration, with the new language, whether or not a listener throws.
C30_EveryListenerOnceInOrder ==
  /\ [](currentLang \in {"zh", "en"} /\ ~thrown)
  /\ [][listeners' = listeners =>
          /\ currentLang' = RequestedLanguage
          /\ IF RequestedLanguage = currentLang
               THEN calls' = <<>>
               ELSE /\ Len(calls') = Len(listeners)
                    /\ \A i \in 1..Len(listeners) :
                         /\ calls'[i].listener = listeners[i].id
                         /\ calls'[i].lang = RequestedLanguage]_vars

\* three listeners, the second one throwing, were all notified of English
C30_Witness ==
  /\ pc = "i18n"
  /\ currentLang = "en"
  /\ Len(listeners) = 3
  /\ listeners[2].fn = "throws"
  /\ calls = <<[listener |-> 1, lang |-> "en"], [listener |-> 2, lang |-> "en"],
               [listener |-> 3, lang |-> "en"]>>

====
